---- MODULE Spec2Model ----
(***************************************************************************)
(* Verification model of the hybrid retrieval core of mirror-server:       *)
(*   - TokenizerService        (tokenizer.service.ts)                      *)
(*   - BM25IndexService        (bm25-index.service.ts)                     *)
(*   - HybridRetriever         (retrievers/hybrid.retriever.ts)            *)
(*   - VectorStoreService      (vectorstore.service.ts)                    *)
(*   - KnowledgeService        (uploadFileWithLoader, deleteFile)          *)
(*                                                                         *)
(* The specifications that share the module:                               *)
(*   Spec      the per-tenant lexical index manager with its asynchronous  *)
(*             operations interleaved at their await points;               *)
(*   SpecSeq   the same manager under one caller that awaits every call;   *)
(*   SpecRetr  one retrieval of the hybrid retriever: the two search       *)
(*             branches, rank fusion and the optional BM25 rerank;         *)
(*   SpecFuse  rank fusion and rerank applied to arbitrary branch results; *)
(*   SpecTen   two tenants, one caller, a clock around the idle timeout;   *)
(*   SpecIso   index calls for two tenants, then a retrieval for one;      *)
(*   SpecEsc   one keyword condition of the keyword statement;             *)
(*   SpecVec   the vector searches over a table with similarities;         *)
(*   SpecScn   a retrieval whose collaborators all work;                   *)
(*   SpecRep   a retrieval repeated with the same query;                   *)
(*   SpecTok   one call of the tokenizer on either backend;                *)
(*   SpecLife  the tokenizer from module start: backend load, then calls;  *)
(*   SpecIdem  the n-gram tokenizer applied to its own joined output;      *)
(*   SpecBuild SpecSeq with BM25 options given to buildIndex;              *)
(*   SpecDoc   uploads and deletions of files beside the index calls;      *)
(*   SpecPool  the operations that take a client from the pg pool.         *)
(*                                                                         *)
(* Numbers that the code computes in floating point are modelled as exact  *)
(* rationals n/d (d > 0) extended with NaN, the value JavaScript           *)
(* arithmetic yields on `undefined`.                                       *)
(***************************************************************************)
EXTENDS Integers, Sequences, FiniteSets, TLC

VARIABLES
  indexCache,   \* BM25IndexService.indexCache: tenant -> handle of its IndexEntry, 0 = no entry
  heap,         \* the IndexEntry / elasticlunr index objects, by handle
  procs,        \* the asynchronous calls in flight on the index service
  now,          \* Date.now()
  last,         \* history: the call that finished in the step just taken, and what it saw
  retr,         \* one HybridRetriever instance and the retrieval it is running
  store,        \* the rows of the "Knowledge" table
  call,         \* a call of a synchronous service function: its arguments and its result
  tokenizer,    \* TokenizerService: its jiebaLoaded flag and how far onModuleInit has come
  pool,         \* the pg pool: per operation, the clients acquired and released
  knowledgeSeq  \* the last value of the sequence behind "Knowledge".id

vars == <<indexCache, heap, procs, now, last, retr, store, call, tokenizer, pool, knowledgeSeq>>
idxVars == <<indexCache, heap, procs, now, last>>

(***************************************************************************)
(* Bounds of the model.                                                    *)
(***************************************************************************)
MaxBuildDocs == 2        \* longest document list given to buildIndex
MaxCount == 2            \* |documentCount| stays within this
MaxNow == 1800001        \* the clock stops here
TickStep == 1800001      \* the clock advances by this much: just over the idle timeout

Tenants == {1, 2}
DocIds == {1, 2}
Procs == {"p1", "p2"}
Readers == {"p1"}        \* the caller that issues every operation
Handles == 1..(Cardinality(Tenants) + Cardinality(Procs))

Min(a, b) == IF a <= b THEN a ELSE b

\* the first n elements of a list
Prefix(rows, n) == SubSeq(rows, 1, Min(n, Len(rows)))
Max(a, b) == IF a >= b THEN a ELSE b

(***************************************************************************)
(* TokenizerService.  A text is a sequence of characters; a token is a     *)
(* sequence of characters.  The alphabet is a few Latin letters in both    *)
(* cases, the blank, and two CJK characters (zh_de is the stop word "de",  *)
(* zh_wen an ordinary character).                                          *)
(***************************************************************************)
LatinLower == {"a", "c", "e", "h", "t"}
LatinUpper == {"A", "C", "T"}
CJKChars == {"zh_de", "zh_wen"}
Blank == " "

ToLowerChar(c) == IF c = "A" THEN "a" ELSE IF c = "C" THEN "c" ELSE IF c = "T" THEN "t" ELSE c
ToLowerCase(w) == [i \in 1..Len(w) |-> ToLowerChar(w[i])]

\* the members of the two stop word lists that can be written in the alphabet
CHINESE_STOP_WORDS == { <<"zh_de">> }
ENGLISH_STOP_WORDS == { <<"t", "h", "e">>, <<"a">>, <<"a", "t">>, <<"h", "e">>,
                        <<"t", "h", "a", "t">> }

IsLatin(c) == c \in LatinLower \cup LatinUpper
IsCJK(c) == c \in CJKChars
InClass(c, cls) == IF cls = "latin" THEN IsLatin(c) ELSE IsCJK(c)

\* text.match(/[a-zA-Z]+/g) and text.match(/[一-龥]+/g): the maximal runs
RECURSIVE Runs(_, _, _, _)
Runs(text, i, cur, cls) ==
  IF i > Len(text)
  THEN (IF cur = <<>> THEN <<>> ELSE <<cur>>)
  ELSE IF InClass(text[i], cls)
       THEN Runs(text, i + 1, Append(cur, text[i]), cls)
       ELSE (IF cur = <<>> THEN <<>> ELSE <<cur>>) \o Runs(text, i + 1, <<>>, cls)

NGramsOfLen(seg, len) == [i \in 1..(Len(seg) - len + 1) |-> SubSeq(seg, i, i + len - 1)]

RECURSIVE NGramsUpTo(_, _, _)
NGramsUpTo(seg, len, max) ==
  IF len > max THEN <<>> ELSE NGramsOfLen(seg, len) \o NGramsUpTo(seg, len + 1, max)

SegmentTokens(seg) ==
  NGramsUpTo(seg, 1, Min(4, Len(seg)))
    \o (IF Len(seg) <= 4 /\ Len(seg) >= 1 THEN <<seg>> ELSE <<>>)

RECURSIVE FlatSegments(_)
FlatSegments(segs) ==
  IF segs = <<>> THEN <<>> ELSE SegmentTokens(Head(segs)) \o FlatSegments(Tail(segs))

\* a backend that also cuts a final "e" off every Latin word
fallbackTokenize_Stems(text) ==
  LET english == Runs(text, 1, <<>>, "latin")
      stem(w) == IF Len(w) > 1 /\ w[Len(w)] = "e" THEN SubSeq(w, 1, Len(w) - 1) ELSE w
  IN [i \in 1..Len(english) |-> stem(ToLowerCase(english[i]))]

fallbackTokenize(text) ==
  LET english == Runs(text, 1, <<>>, "latin")
      chinese == Runs(text, 1, <<>>, "cjk")
  IN [i \in 1..Len(english) |-> ToLowerCase(english[i])] \o FlatSegments(chinese)

isStopWord(word) == word \in CHINESE_STOP_WORDS \/ ToLowerCase(word) \in ENGLISH_STOP_WORDS

\* processed.filter((token) => !this.isStopWord(token))
RECURSIVE DropStopWords(_)
DropStopWords(s) ==
  IF s = <<>> THEN <<>>
  ELSE (IF isStopWord(Head(s)) THEN <<>> ELSE <<Head(s)>>) \o DropStopWords(Tail(s))

\* processed.filter((token) => token.length >= min && token.length <= max)
RECURSIVE KeepLengths(_, _, _)
KeepLengths(s, lo, hi) ==
  IF s = <<>> THEN <<>>
  ELSE (IF Len(Head(s)) >= lo /\ Len(Head(s)) <= hi THEN <<Head(s)>> ELSE <<>>)
         \o KeepLengths(Tail(s), lo, hi)

\* [...new Set(processed)]: first occurrences, in order
RECURSIVE Dedupe(_, _)
Dedupe(s, seen) ==
  IF s = <<>> THEN <<>>
  ELSE IF Head(s) \in seen THEN Dedupe(Tail(s), seen)
       ELSE <<Head(s)>> \o Dedupe(Tail(s), seen \cup {Head(s)})

postProcess(tokens, filterStopWords, minWordLength, maxWordLength) ==
  LET p1 == IF filterStopWords THEN DropStopWords(tokens) ELSE tokens
  IN Dedupe(KeepLengths(p1, minWordLength, maxWordLength), {})

IsBlankText(text) == \A i \in 1..Len(text) : text[i] = Blank

DefaultMaxWordLength == 50

\* tokenize(text, options) on the n-gram backend
tokenize(text, filterStopWords, minWordLength, maxWordLength) ==
  IF IsBlankText(text) THEN <<>>
  ELSE postProcess(fallbackTokenize(text), filterStopWords, minWordLength, maxWordLength)

\* jieba.cut(text, false): the library cuts the text into consecutive pieces, as its
\* dictionary decides: any way of cutting the text
RECURSIVE jiebaCut(_)
jiebaCut(text) ==
  IF text = <<>> THEN {<<>>}
  ELSE UNION {{<<SubSeq(text, 1, k)>> \o rest : rest \in jiebaCut(SubSeq(text, k + 1, Len(text)))} :
                k \in 1..Len(text)}

\* tokenize(text, options) when jieba is loaded and has cut the text into `pieces`
tokenizeJieba(text, pieces, filterStopWords, minWordLength, maxWordLength) ==
  IF IsBlankText(text) THEN <<>>
  ELSE postProcess(pieces, filterStopWords, minWordLength, maxWordLength)

\* tokenize(text, TOKENIZER_CONFIG)
TokenizeForIndex(text) == tokenize(text, TRUE, 1, DefaultMaxWordLength)

Range(s) == {s[i] : i \in 1..Len(s)}

(***************************************************************************)
(* Documents, texts and queries of the index model.                        *)
(***************************************************************************)
TextCat == <<"C", "a", "t">>
TextTheTea == <<"t", "h", "e", " ", "t", "e", "a">>
Queries == { <<"c", "a", "t">>, <<"t", "h", "e">>, <<"T", "e", "a", " ", "c", "a", "t">> }
Limits == {1, 10}
IdSets == {{1}, {1, 2}}

Documents == { [id |-> 1, content |-> TextCat],
               [id |-> 1, content |-> TextTheTea],
               [id |-> 2, content |-> TextTheTea] }

RECURSIVE SeqsUpTo(_, _)
SeqsUpTo(S, n) ==
  IF n = 0 THEN {<<>>}
  ELSE LET shorter == SeqsUpTo(S, n - 1)
       IN shorter \cup {Append(s, x) : s \in {q \in shorter : Len(q) = n - 1}, x \in S}

BuildInputs == SeqsUpTo(Documents, MaxBuildDocs)

(***************************************************************************)
(* The elasticlunr index behind an IndexEntry: the document store and the  *)
(* inverted index of the "tokens" field.                                   *)
(***************************************************************************)
\* DEFAULT_BM25_K1 = 1.2 and DEFAULT_BM25_B = 0.75, as fractions
DEFAULT_BM25_K1 == [nan |-> FALSE, n |-> 6, d |-> 5]
DEFAULT_BM25_B == [nan |-> FALSE, n |-> 3, d |-> 4]
DefaultBM25Config == [k1 |-> DEFAULT_BM25_K1, b |-> DEFAULT_BM25_B]

\* BM25IndexOptions: an option is <<>> when it is not supplied, <<value>> when it is
NoOptions == [k1 |-> <<>>, b |-> <<>>]

\* x ?? fallback
NullishOr_Falsy(x, fallback) == IF x = <<>> \/ x[1].n = 0 THEN fallback ELSE x[1]

NullishOr(x, fallback) == IF x = <<>> THEN fallback ELSE x[1]

NewIndex == [docs |-> <<>>, postings |-> {}, documentCount |-> 0, lastAccessed |-> 0,
             bm25Config |-> DefaultBM25Config]

HasDoc(e, id) == id \in DOMAIN e.docs

\* index.addDoc(indexedDoc): store the document under its ref, add its tokens' postings
AddDoc(e, doc) ==
  [e EXCEPT
     !.docs = [x \in (DOMAIN e.docs) \cup {doc.id} |->
                 IF x = doc.id THEN doc.content ELSE e.docs[x]],
     !.postings = e.postings \cup {<<tok, doc.id>> : tok \in Range(TokenizeForIndex(doc.content))}]

\* index.removeDocByRef(id): nothing when the ref is not stored
RemoveDocByRef(e, id) ==
  IF ~HasDoc(e, id) THEN e
  ELSE [e EXCEPT
          !.docs = [x \in (DOMAIN e.docs) \ {id} |-> e.docs[x]],
          !.postings = e.postings \ {<<tok, id>> : tok \in Range(TokenizeForIndex(e.docs[id]))}]

\* the score elasticlunr gives a ref for a query: here the number of query tokens it holds
RefScore(e, qtokens, id) == Cardinality({tok \in Range(qtokens) : <<tok, id>> \in e.postings})

MatchedRefs(e, qtokens) == {id \in DocIds : RefScore(e, qtokens, id) > 0}

\* refs by descending score, then ascending ref
RECURSIVE RankRefs(_, _, _)
RankRefs(e, qtokens, refs) ==
  IF refs = {} THEN <<>>
  ELSE LET best == CHOOSE x \in refs : \A y \in refs :
                     \/ RefScore(e, qtokens, x) > RefScore(e, qtokens, y)
                     \/ RefScore(e, qtokens, x) = RefScore(e, qtokens, y) /\ x <= y
       IN <<[ref |-> best, score |-> RefScore(e, qtokens, best)]>>
            \o RankRefs(e, qtokens, refs \ {best})

\* entry.index.search(queryString, {bool: "OR", expand: false})
IndexSearch(e, qtokens) == RankRefs(e, qtokens, MatchedRefs(e, qtokens))

RECURSIVE FormatResults(_, _)
FormatResults(e, rs) ==
  IF rs = <<>> THEN <<>>
  ELSE (IF HasDoc(e, Head(rs).ref)
        THEN <<[id |-> Head(rs).ref, score |-> Head(rs).score]>>
        ELSE <<>>) \o FormatResults(e, Tail(rs))

\* the body of search() after the tokenizer has returned
SearchEntry(e, query, limit) ==
  LET qtokens == TokenizeForIndex(query)
  IN IF qtokens = <<>> THEN <<>>
     ELSE LET rs == IndexSearch(e, qtokens)
          IN FormatResults(e, SubSeq(rs, 1, Min(limit, Len(rs))))

\* the body of getScoresForDocuments() after the tokenizer has returned,
\* as the list of the [id, score] pairs of the returned map
RECURSIVE KeepIds(_, _)
KeepIds(rs, ids) ==
  IF rs = <<>> THEN <<>>
  ELSE (IF Head(rs).ref \in ids
        THEN <<[id |-> Head(rs).ref, score |-> Head(rs).score]>>
        ELSE <<>>) \o KeepIds(Tail(rs), ids)

ScoresEntry(e, query, ids) ==
  LET qtokens == TokenizeForIndex(query)
  IN IF qtokens = <<>> THEN <<>> ELSE KeepIds(IndexSearch(e, qtokens), ids)

ResultIds(rs) == {rs[i].id : i \in 1..Len(rs)}

(***************************************************************************)
(* BM25IndexService: state and synchronous observers.                      *)
(***************************************************************************)
IDLE_TIMEOUT == 30 * 60 * 1000

hasIndex(t) == indexCache[t] # 0
getDocumentCount(t) == IF indexCache[t] = 0 THEN 0 ELSE heap[indexCache[t]].documentCount

\* what search(t, query, limit) returns when nothing else runs during its await
SearchNow(t, query, limit) ==
  IF indexCache[t] = 0 THEN <<>> ELSE SearchEntry(heap[indexCache[t]], query, limit)

NoOverlap == [k |-> "none", id |-> 0]
NoSnap == [docs |-> <<>>, postings |-> {}]
IdleProc == [op |-> "idle", pc |-> "idle", t |-> 0, docs |-> <<>>, i |-> 0, h |-> 0,
             q |-> <<>>, lim |-> 0, ids |-> {}, path |-> "none",
             ov |-> NoOverlap, snap |-> NoSnap, cfg |-> NoOptions]
NoObs == [has |-> FALSE, cnt |-> 0, ids |-> {}]
NoLast == [op |-> "none", t |-> 0, id |-> 0, path |-> "none", ov |-> NoOverlap,
           pre |-> 0, q |-> <<>>, lim |-> 0, ids |-> {}, snap |-> NoSnap,
           ret |-> <<>>, obs |-> NoObs, cfg |-> NoOptions]

InFlight(ps, p) == ps[p].pc = "await"

(***************************************************************************)
(* Object identity.  An IndexEntry is reached through the cache or through *)
(* the `entry` / `index` local of a suspended call.  Handles are kept in   *)
(* the order of that list, so that two states differing only in the names  *)
(* of the objects are one state; unreachable objects are dropped.          *)
(***************************************************************************)
TenantSeq == <<1, 2>>
ProcSeq == <<"p1", "p2">>

RefSeq(cache, ps) ==
  [i \in 1..Len(TenantSeq) |-> cache[TenantSeq[i]]]
    \o [i \in 1..Len(ProcSeq) |-> IF InFlight(ps, ProcSeq[i]) THEN ps[ProcSeq[i]].h ELSE 0]

RECURSIVE DedupeRefs(_, _)
DedupeRefs(s, seen) ==
  IF s = <<>> THEN <<>>
  ELSE IF Head(s) = 0 \/ Head(s) \in seen THEN DedupeRefs(Tail(s), seen)
       ELSE <<Head(s)>> \o DedupeRefs(Tail(s), seen \cup {Head(s)})

RefOrder(cache, ps) == DedupeRefs(RefSeq(cache, ps), {})

NewName(order, h) == IF h = 0 THEN 0 ELSE CHOOSE k \in 1..Len(order) : order[k] = h

\* the handle `new Index` gets: the first one not in use
FreshHandle == Len(RefOrder(indexCache, procs)) + 1

\* the next values of the cache, the objects and the calls
Store(cache, hp, ps) ==
  LET order == RefOrder(cache, ps)
  IN /\ indexCache' = [t \in Tenants |-> NewName(order, cache[t])]
     /\ procs' = [p \in Procs |->
                    IF InFlight(ps, p) THEN [ps[p] EXCEPT !.h = NewName(order, @)] ELSE ps[p]]
     /\ heap' = [k \in Handles |-> IF k <= Len(order) THEN hp[order[k]] ELSE NewIndex]

\* history: an event on tenant t is seen by every call suspended on t
Combine(ov, ev) ==
  IF ov.k = "none" THEN ev
  ELSE IF ov.k = "mixed" \/ ev.k = "mixed" THEN [k |-> "mixed", id |-> 0]
  ELSE [k |-> "struct", id |-> 0]

Hit(ps, t, ev) ==
  [p \in Procs |->
     IF InFlight(ps, p) /\ ps[p].t = t
     THEN [ps[p] EXCEPT !.ov = Combine(@, ev),
                        !.snap = IF ev.k = "mixed" THEN NoSnap ELSE @]
     ELSE ps[p]]

StructEv == [k |-> "struct", id |-> 0]
MixedEv == [k |-> "mixed", id |-> 0]
RivalEv(id) == [k |-> "rival", id |-> id]

Observe(cache, hp, t) ==
  IF cache[t] = 0 THEN NoObs
  ELSE [has |-> TRUE, cnt |-> hp[cache[t]].documentCount, ids |-> DOMAIN hp[cache[t]].docs]

Finished(pr, pre, ret, obs) ==
  [NoLast EXCEPT !.op = pr.op, !.t = pr.t, !.path = pr.path, !.ov = pr.ov,
                 !.id = IF pr.docs = <<>> THEN 0 ELSE pr.docs[1].id,
                 !.pre = pre, !.q = pr.q, !.lim = pr.lim, !.ids = pr.ids,
                 !.snap = pr.snap, !.ret = ret, !.obs = obs, !.cfg = pr.cfg]

retrUnchanged == UNCHANGED <<retr, store, call, tokenizer, pool, knowledgeSeq>>

(***************************************************************************)
(* buildIndex(userId, documents): lines 138-198.                           *)
(***************************************************************************)
\* lines 183-188: store the finished index in the cache; the call returns
Publish(p, pr, e, ev) ==
  LET cache2 == [indexCache EXCEPT ![pr.t] = pr.h]
      heap2 == [heap EXCEPT ![pr.h] = [e EXCEPT
                 !.documentCount = Len(pr.docs),
                 !.lastAccessed = now,
                 !.bm25Config = [k1 |-> NullishOr(pr.cfg.k1, DEFAULT_BM25_K1),
                                 b |-> NullishOr(pr.cfg.b, DEFAULT_BM25_B)]]]
  IN /\ Store(cache2, heap2, Hit([procs EXCEPT ![p] = IdleProc], pr.t, ev))
     /\ last' = Finished(pr, 0, <<>>, Observe(cache2, heap2, pr.t))

\* buildIndex that puts the new index into the cache before it has filled it
BuildIndexCall_PublishesEarly(p, t, documents) ==
  /\ procs[p].pc = "idle"
  /\ LET pr == [IdleProc EXCEPT !.op = "buildIndex", !.pc = "await", !.t = t,
                                !.docs = documents, !.i = 1, !.h = FreshHandle,
                                !.path = "build"]
     IN IF documents = <<>>
        THEN Publish(p, pr, NewIndex, StructEv)
        ELSE /\ Store([indexCache EXCEPT ![t] = pr.h], [heap EXCEPT ![pr.h] = NewIndex],
                      [procs EXCEPT ![p] = pr])
             /\ last' = NoLast
  /\ UNCHANGED now
  /\ retrUnchanged

\* the call up to the first await (or to the end, for an empty document list)
BuildIndexWith(p, t, documents, options) ==
  /\ procs[p].pc = "idle"
  /\ LET pr == [IdleProc EXCEPT !.op = "buildIndex", !.pc = "await", !.t = t,
                                !.docs = documents, !.i = 1, !.h = FreshHandle,
                                !.path = "build", !.cfg = options]
     IN IF documents = <<>>
        THEN Publish(p, pr, NewIndex, StructEv)
        ELSE /\ Store(indexCache, [heap EXCEPT ![pr.h] = NewIndex],
                      [procs EXCEPT ![p] = pr])
             /\ last' = NoLast
  /\ UNCHANGED now
  /\ retrUnchanged

\* buildIndex(userId, documents) with the default options = {}
BuildIndexCall(p, t, documents) == BuildIndexWith(p, t, documents, NoOptions)

\* the tokenizer returned for documents[i]: add it, go on to the next or publish
BuildIndexResume(p) ==
  /\ procs[p].pc = "await"
  /\ procs[p].path = "build"
  /\ LET pr == procs[p]
         e == AddDoc(heap[pr.h], pr.docs[pr.i])
     IN IF pr.i < Len(pr.docs)
        THEN /\ Store(indexCache, [heap EXCEPT ![pr.h] = e],
                      [procs EXCEPT ![p].i = pr.i + 1])
             /\ last' = NoLast
        ELSE Publish(p, pr, e,
                     IF pr.op = "addDocument" THEN RivalEv(pr.docs[1].id) ELSE StructEv)
  /\ UNCHANGED now
  /\ retrUnchanged

(***************************************************************************)
(* addDocument(userId, document): lines 205-238.                           *)
(***************************************************************************)
AddDocumentCall(p, t, document) ==
  /\ procs[p].pc = "idle"
  /\ LET pr == [IdleProc EXCEPT !.op = "addDocument", !.pc = "await", !.t = t,
                                !.docs = <<document>>, !.i = 1]
     IN IF indexCache[t] = 0
        THEN \* line 211: no entry, buildIndex(userId, [document])
             Store(indexCache, [heap EXCEPT ![FreshHandle] = NewIndex],
                   [procs EXCEPT ![p] = [pr EXCEPT !.h = FreshHandle, !.path = "build"]])
        ELSE \* line 217: keep the entry, await the tokenizer
             Store(indexCache, heap,
                   [procs EXCEPT ![p] = [pr EXCEPT !.h = indexCache[t], !.path = "add"]])
  /\ last' = NoLast
  /\ UNCHANGED now
  /\ retrUnchanged

\* lines 227-229: insert into the entry read before the await; the call returns
AddDocumentResume(p) ==
  /\ procs[p].pc = "await"
  /\ procs[p].op = "addDocument"
  /\ procs[p].path = "add"
  /\ heap[procs[p].h].documentCount < MaxCount
  /\ LET pr == procs[p]
         e == [AddDoc(heap[pr.h], pr.docs[1]) EXCEPT
                 !.documentCount = @ + 1, !.lastAccessed = now]
         heap2 == [heap EXCEPT ![pr.h] = e]
     IN /\ Store(indexCache, heap2, Hit([procs EXCEPT ![p] = IdleProc], pr.t, MixedEv))
        /\ last' = Finished(pr, heap[pr.h].documentCount, <<>>,
                            Observe(indexCache, heap2, pr.t))
  /\ UNCHANGED now
  /\ retrUnchanged

(***************************************************************************)
(* removeDocument(userId, documentId): lines 245-264.                      *)
(***************************************************************************)
\* removeDocument that forgets `entry.documentCount--`
RemoveDocument_KeepsCount(t, documentId) ==
  /\ IF indexCache[t] = 0
     THEN /\ UNCHANGED <<indexCache, heap, procs>>
          /\ last' = [NoLast EXCEPT !.op = "removeDocument", !.t = t, !.id = documentId,
                                    !.path = "noindex"]
     ELSE LET h == indexCache[t]
              e == [RemoveDocByRef(heap[h], documentId) EXCEPT !.lastAccessed = now]
              heap2 == [heap EXCEPT ![h] = e]
              afterAdd == /\ last.op = "addDocument" /\ last.ov.k = "none"
                          /\ last.t = t /\ last.id = documentId
          IN /\ Store(indexCache, heap2, Hit(procs, t, MixedEv))
             /\ last' = [NoLast EXCEPT !.op = "removeDocument", !.t = t, !.id = documentId,
                                       !.path = IF afterAdd THEN "afterAdd" ELSE "remove",
                                       !.pre = IF afterAdd THEN last.pre ELSE 0,
                                       !.obs = Observe(indexCache, heap2, t)]
  /\ UNCHANGED now
  /\ retrUnchanged

RemoveDocument(t, documentId) ==
  /\ indexCache[t] # 0 => heap[indexCache[t]].documentCount > 0 - MaxCount
  /\ IF indexCache[t] = 0
     THEN /\ UNCHANGED <<indexCache, heap, procs>>
          /\ last' = [NoLast EXCEPT !.op = "removeDocument", !.t = t, !.id = documentId,
                                    !.path = "noindex"]
     ELSE LET h == indexCache[t]
              e == [RemoveDocByRef(heap[h], documentId) EXCEPT
                      !.documentCount = @ - 1, !.lastAccessed = now]
              heap2 == [heap EXCEPT ![h] = e]
              afterAdd == /\ last.op = "addDocument" /\ last.ov.k = "none"
                          /\ last.t = t /\ last.id = documentId
          IN /\ Store(indexCache, heap2, Hit(procs, t, MixedEv))
             /\ last' = [NoLast EXCEPT !.op = "removeDocument", !.t = t, !.id = documentId,
                                       !.path = IF afterAdd THEN "afterAdd" ELSE "remove",
                                       !.pre = IF afterAdd THEN last.pre ELSE 0,
                                       !.obs = Observe(indexCache, heap2, t)]
  /\ UNCHANGED now
  /\ retrUnchanged

(***************************************************************************)
(* search(userId, query, limit): lines 273-335, and                        *)
(* getScoresForDocuments(userId, query, documentIds): lines 344-400.       *)
(***************************************************************************)
\* a query that caches an empty index for a tenant that has none
QueryCall_CreatesIndex(p, op, t, query, limit, ids) ==
  /\ procs[p].pc = "idle"
  /\ indexCache[t] = 0
  /\ Store([indexCache EXCEPT ![t] = FreshHandle],
           [heap EXCEPT ![FreshHandle] = [NewIndex EXCEPT !.lastAccessed = now]], procs)
  /\ last' = Finished([IdleProc EXCEPT !.op = op, !.t = t, !.q = query, !.lim = limit,
                                       !.ids = ids, !.path = "noindex"], 0, <<>>, NoObs)
  /\ UNCHANGED now
  /\ retrUnchanged

QueryCall(p, op, t, query, limit, ids) ==
  /\ procs[p].pc = "idle"
  /\ LET pr == [IdleProc EXCEPT !.op = op, !.t = t, !.q = query, !.lim = limit, !.ids = ids]
     IN IF indexCache[t] = 0
        THEN \* no index: an empty result at once
             /\ last' = Finished([pr EXCEPT !.path = "noindex"], 0, <<>>, NoObs)
             /\ UNCHANGED <<indexCache, heap, procs>>
        ELSE LET h == indexCache[t]
             IN /\ Store(indexCache, [heap EXCEPT ![h].lastAccessed = now],
                         [procs EXCEPT ![p] =
                            [pr EXCEPT !.pc = "await", !.h = h, !.path = "query",
                                       !.snap = [docs |-> heap[h].docs,
                                                 postings |-> heap[h].postings]]])
                /\ last' = NoLast
  /\ UNCHANGED now
  /\ retrUnchanged

SearchCall(p, t, query, limit) == QueryCall(p, "search", t, query, limit, {})

GetScoresCall(p, t, query, ids) == QueryCall(p, "getScores", t, query, 0, ids)

\* the tokenizer returned: query the entry read before the await; the call returns
SearchResume(p) ==
  /\ procs[p].pc = "await"
  /\ procs[p].op = "search"
  /\ LET pr == procs[p]
     IN /\ Store(indexCache, heap, [procs EXCEPT ![p] = IdleProc])
        /\ last' = Finished(pr, 0, SearchEntry(heap[pr.h], pr.q, pr.lim),
                            Observe(indexCache, heap, pr.t))
  /\ UNCHANGED now
  /\ retrUnchanged

GetScoresResume(p) ==
  /\ procs[p].pc = "await"
  /\ procs[p].op = "getScores"
  /\ LET pr == procs[p]
     IN /\ Store(indexCache, heap, [procs EXCEPT ![p] = IdleProc])
        /\ last' = Finished(pr, 0, ScoresEntry(heap[pr.h], pr.q, pr.ids),
                            Observe(indexCache, heap, pr.t))
  /\ UNCHANGED now
  /\ retrUnchanged

(***************************************************************************)
(* clearIndex(userId): lines 406-414; cleanupIdleIndexes(): lines 458-474. *)
(***************************************************************************)
ClearIndex(t) ==
  /\ indexCache[t] # 0
  /\ Store([indexCache EXCEPT ![t] = 0], heap, Hit(procs, t, StructEv))
  /\ last' = [NoLast EXCEPT !.op = "clearIndex", !.t = t]
  /\ UNCHANGED now
  /\ retrUnchanged

\* the sweep that also drops an index idle for exactly the timeout
IsIdle_Inclusive(t) == indexCache[t] # 0 /\ now - heap[indexCache[t]].lastAccessed >= IDLE_TIMEOUT

IsIdle(t) == indexCache[t] # 0 /\ now - heap[indexCache[t]].lastAccessed > IDLE_TIMEOUT

RECURSIVE HitAll(_, _)
HitAll(ps, ts) ==
  IF ts = {} THEN ps
  ELSE LET t == CHOOSE x \in ts : TRUE
       IN HitAll(Hit(ps, t, StructEv), ts \ {t})

CleanupIdleIndexes ==
  /\ LET keysToDelete == {t \in Tenants : IsIdle(t)}
     IN /\ keysToDelete # {}
        /\ Store([t \in Tenants |-> IF t \in keysToDelete THEN 0 ELSE indexCache[t]],
                 heap, HitAll(procs, keysToDelete))
        /\ last' = [NoLast EXCEPT !.op = "cleanupIdleIndexes"]
  /\ UNCHANGED now
  /\ retrUnchanged

\* time passes
Tick ==
  /\ now + TickStep <= MaxNow
  /\ now' = now + TickStep
  /\ last' = NoLast
  /\ UNCHANGED <<indexCache, heap, procs>>
  /\ retrUnchanged

\* time passes by d milliseconds
TickBy(d) ==
  /\ now + d <= MaxNow
  /\ now' = now + d
  /\ last' = NoLast
  /\ UNCHANGED <<indexCache, heap, procs>>
  /\ retrUnchanged

\* hasIndex(userId), lines 420-423: a lookup of the key, nothing is written
HasIndexCall(t) ==
  /\ last' = [NoLast EXCEPT !.op = "hasIndex", !.t = t,
                            !.obs = Observe(indexCache, heap, t)]
  /\ UNCHANGED <<indexCache, heap, procs, now>>
  /\ retrUnchanged

(***************************************************************************)
(* Numbers: [nan, n, d] is NaN or the rational n/d in lowest terms.        *)
(***************************************************************************)
Abs(x) == IF x < 0 THEN -x ELSE x

RECURSIVE GCD(_, _)
GCD(a, b) == IF b = 0 THEN a ELSE GCD(b, a % b)

NaN == [nan |-> TRUE, n |-> 0, d |-> 1]
Rat(n, d) == LET g == GCD(Abs(n), d) IN [nan |-> FALSE, n |-> n \div g, d |-> d \div g]
Int2Num(i) == Rat(i, 1)
Zero == Rat(0, 1)
One == Rat(1, 1)

\* the value of a field that was never assigned
Undefined == [undefined |-> TRUE]
ToNumber(x) == IF "undefined" \in DOMAIN x THEN NaN ELSE x

NumAdd(a, b) ==
  LET x == ToNumber(a)
      y == ToNumber(b)
  IN IF x.nan \/ y.nan THEN NaN ELSE Rat(x.n * y.d + y.n * x.d, x.d * y.d)

NumSub(a, b) ==
  LET x == ToNumber(a)
      y == ToNumber(b)
  IN IF x.nan \/ y.nan THEN NaN ELSE Rat(x.n * y.d - y.n * x.d, x.d * y.d)

NumMul(a, b) ==
  LET x == ToNumber(a)
      y == ToNumber(b)
  IN IF x.nan \/ y.nan THEN NaN ELSE Rat(x.n * y.n, x.d * y.d)

\* a / b; the divisors of the code are NaN or at least 1/1000, never zero
NumDiv(a, b) ==
  LET x == ToNumber(a)
      y == ToNumber(b)
  IN IF x.nan \/ y.nan \/ y.n = 0 THEN NaN
     ELSE IF y.n > 0 THEN Rat(x.n * y.d, x.d * y.n)
     ELSE Rat(-(x.n * y.d), x.d * (-y.n))

\* a < b and a === b: false as soon as one side is NaN
NumLess(a, b) == ~a.nan /\ ~b.nan /\ a.n * b.d < b.n * a.d
NumEq(a, b) == ~a.nan /\ ~b.nan /\ a = b
NumLeq(a, b) == NumLess(a, b) \/ NumEq(a, b)

\* x || 0
OrZero(x) == IF x.nan \/ x.n = 0 THEN Zero ELSE x

\* Math.max(...s): NaN when an argument is NaN
RECURSIVE MathMax(_)
MathMax(s) ==
  IF Len(s) = 1 THEN s[1]
  ELSE LET m == MathMax(Tail(s))
       IN IF s[1].nan \/ m.nan THEN NaN ELSE IF NumLess(s[1], m) THEN m ELSE s[1]

(***************************************************************************)
(* TokenizerService.extractKeywords and the retriever's own extraction.    *)
(***************************************************************************)
\* frequency.set(token, (frequency.get(token) || 0) + 1) over the tokens
Frequency(tokens, word) == Cardinality({i \in 1..Len(tokens) : tokens[i] = word})

\* .sort((a, b) => b[1] - a[1]) on the entries of the map: stable, higher count first
RECURSIVE InsertByFrequency(_, _, _)
InsertByFrequency(sorted, word, tokens) ==
  IF sorted = <<>> THEN <<word>>
  ELSE IF Frequency(tokens, Head(sorted)) >= Frequency(tokens, word)
       THEN <<Head(sorted)>> \o InsertByFrequency(Tail(sorted), word, tokens)
       ELSE <<word>> \o sorted

RECURSIVE SortByFrequency(_, _)
SortByFrequency(words, tokens) ==
  IF words = <<>> THEN <<>>
  ELSE InsertByFrequency(SortByFrequency(SubSeq(words, 1, Len(words) - 1), tokens),
                         words[Len(words)], tokens)

\* extractKeywords after its tokenize call: the entries of the frequency map in
\* insertion order, sorted by count, the first maxKeywords of them
KeywordsOf(tokens, maxKeywords) ==
  Prefix(SortByFrequency(Dedupe(tokens, {}), tokens), maxKeywords)

\* extractKeywords(text, maxKeywords) on the n-gram backend
extractKeywords(text, maxKeywords) ==
  KeywordsOf(tokenize(text, TRUE, 2, DefaultMaxWordLength), maxKeywords)

\* the members of the retriever's stop word list that can be written in the alphabet
RetrieverStopWords == { <<"zh_de">>, <<"t", "h", "e">>, <<"a">>, <<"a", "t">>,
                        <<"t", "h", "a", "t">> }

RECURSIVE EnglishKeywords(_)
EnglishKeywords(ws) ==
  IF ws = <<>> THEN <<>>
  ELSE LET lowerWord == ToLowerCase(Head(ws))
       IN (IF Len(lowerWord) >= 2 /\ lowerWord \notin RetrieverStopWords
           THEN <<lowerWord>> ELSE <<>>) \o EnglishKeywords(Tail(ws))

RECURSIVE DropRetrieverStopWords(_)
DropRetrieverStopWords(s) ==
  IF s = <<>> THEN <<>>
  ELSE (IF Head(s) \in RetrieverStopWords THEN <<>> ELSE <<Head(s)>>)
         \o DropRetrieverStopWords(Tail(s))

RECURSIVE ChineseKeywords(_)
ChineseKeywords(segs) ==
  IF segs = <<>> THEN <<>>
  ELSE LET segment == Head(segs)
       IN DropRetrieverStopWords(NGramsUpTo(segment, 2, Min(4, Len(segment))))
            \o (IF Len(segment) >= 2 /\ segment \notin RetrieverStopWords
                THEN <<segment>> ELSE <<>>)
            \o ChineseKeywords(Tail(segs))

MaxKeywords == 10

\* HybridRetriever.extractKeywords without a tokenizer service
builtinExtractKeywords(query) ==
  LET words == EnglishKeywords(Runs(query, 1, <<>>, "latin"))
                 \o ChineseKeywords(Runs(query, 1, <<>>, "cjk"))
      uniqueWords == Dedupe(words, {})
  IN SubSeq(uniqueWords, 1, Min(MaxKeywords, Len(uniqueWords)))

(***************************************************************************)
(* HybridRetriever: configuration and rank fusion.                         *)
(***************************************************************************)
DefaultLimit == 5
DefaultVectorWeight == Rat(7, 10)
DefaultKeywordWeight == Rat(3, 10)
DefaultBm25Weight == Rat(3, 10)

\* this.rrfK: the constructor never assigns it
rrfK == Undefined

\* the value the knowledge service passes as options.rrfK
DefaultRrfK == 60

Epsilon == Rat(1, 1000)

MaxRows == 2             \* longest list a search branch returns
RetrIds == {1, 2, 3}
MatchCounts == {1, 2}
Similarities == {Rat(1, 2)}

VectorRows == [id : RetrIds, similarity : Similarities]
KeywordRows == [id : RetrIds, matchCount : MatchCounts]

DistinctIds(rows) == \A i, j \in 1..Len(rows) : i # j => rows[i].id # rows[j].id

\* ORDER BY "matchCount" DESC, id ASC
SqlOrdered(rows) ==
  \A i \in 1..(Len(rows) - 1) :
    \/ rows[i].matchCount > rows[i + 1].matchCount
    \/ rows[i].matchCount = rows[i + 1].matchCount /\ rows[i].id < rows[i + 1].id

\* what the two queries can return: rows of distinct ids, the keyword rows in SQL order
VectorLists == {s \in SeqsUpTo(VectorRows, MaxRows) : DistinctIds(s)}
KeywordLists == {s \in SeqsUpTo(KeywordRows, MaxRows) : DistinctIds(s) /\ SqlOrdered(s)}

RowIds(rows) == {rows[i].id : i \in 1..Len(rows)}
IndexOf(rows, id) == CHOOSE i \in 1..Len(rows) : rows[i].id = id

\* const rrfScore = 1 / (this.rrfK + index + 1), index counted from 0
RrfScore(index) == NumDiv(One, NumAdd(NumAdd(rrfK, Int2Num(index)), One))

\* the keys of scoreMap in insertion order: the vector ids, then the new keyword ids
RECURSIVE NewKeywordIds(_, _)
NewKeywordIds(rows, seen) ==
  IF rows = <<>> THEN <<>>
  ELSE (IF Head(rows).id \in seen THEN <<>> ELSE <<Head(rows).id>>)
         \o NewKeywordIds(Tail(rows), seen)

ScoreMapKeys(vectorResults, keywordResults) ==
  [i \in 1..Len(vectorResults) |-> vectorResults[i].id]
    \o NewKeywordIds(keywordResults, RowIds(vectorResults))

\* the entry of scoreMap for an id, with hybridScore: vectorScore + keywordScore
FusedResult(vectorResults, keywordResults, vectorWeight, keywordWeight, id) ==
  LET inV == id \in RowIds(vectorResults)
      inK == id \in RowIds(keywordResults)
      vectorScore == IF inV THEN NumMul(RrfScore(IndexOf(vectorResults, id) - 1), vectorWeight)
                     ELSE Zero
      keywordScore == IF inK THEN NumMul(RrfScore(IndexOf(keywordResults, id) - 1), keywordWeight)
                      ELSE Zero
  IN [id |-> id,
      similarity |-> IF inV THEN vectorResults[IndexOf(vectorResults, id)].similarity ELSE Zero,
      keywordScore |-> IF inK THEN keywordResults[IndexOf(keywordResults, id)].matchCount ELSE 0,
      hybridScore |-> NumAdd(vectorScore, keywordScore)]

\* Array.prototype.sort with (a, b) => (b.hybridScore || 0) - (a.hybridScore || 0): stable
RECURSIVE InsertByScore(_, _)
InsertByScore(sorted, x) ==
  IF sorted = <<>> THEN <<x>>
  ELSE IF NumLess(OrZero(Head(sorted).hybridScore), OrZero(x.hybridScore))
       THEN <<x>> \o sorted
       ELSE <<Head(sorted)>> \o InsertByScore(Tail(sorted), x)

RECURSIVE SortByHybridScore(_)
SortByHybridScore(s) ==
  IF s = <<>> THEN <<>>
  ELSE InsertByScore(SortByHybridScore(SubSeq(s, 1, Len(s) - 1)), s[Len(s)])

mergeResultsWithRRF(vectorResults, keywordResults, vectorWeight, keywordWeight, limit) ==
  LET keys == ScoreMapKeys(vectorResults, keywordResults)
      values == [i \in 1..Len(keys) |->
                   FusedResult(vectorResults, keywordResults, vectorWeight, keywordWeight, keys[i])]
      sorted == SortByHybridScore(values)
  IN SubSeq(sorted, 1, Min(limit, Len(sorted)))

(***************************************************************************)
(* rerankWithBM25, lines 217-252: the scores of the index are combined     *)
(* with the fused scores.  bm25Scores is the list of the [id, score] pairs *)
(* of the map getScoresForDocuments returned.                              *)
(***************************************************************************)
Bm25ScoreOf(bm25Scores, id) ==
  IF \E i \in 1..Len(bm25Scores) : bm25Scores[i].id = id
  THEN Int2Num(bm25Scores[CHOOSE i \in 1..Len(bm25Scores) : bm25Scores[i].id = id].score)
  ELSE Zero

\* bm25Score / maxBM25Score with the raw score in its place
NormalizeBM25_Raw(bm25Score, maxBM25Score) == bm25Score

NormalizeBM25(bm25Score, maxBM25Score) == NumDiv(bm25Score, maxBM25Score)

\* a rerank that returns only the results the index has a score for
rerankScores_KeepsScored(results, bm25Scores, bm25Weight) ==
  LET scored == SelectSeq(results, LAMBDA x : \E i \in 1..Len(bm25Scores) : bm25Scores[i].id = x.id)
  IN SortByHybridScore(
       [i \in 1..Len(scored) |->
          [scored[i] EXCEPT !.hybridScore = Bm25ScoreOf(bm25Scores, scored[i].id)]])

rerankScores(results, bm25Scores, bm25Weight) ==
  LET maxRRFScore == MathMax([i \in 1..Len(results) |-> OrZero(results[i].hybridScore)]
                               \o <<Epsilon>>)
      maxBM25Score == MathMax([i \in 1..Len(bm25Scores) |-> Int2Num(bm25Scores[i].score)]
                                \o <<Epsilon>>)
      rerankedResults ==
        [i \in 1..Len(results) |->
           LET normalizedBM25Score ==
                 NormalizeBM25(Bm25ScoreOf(bm25Scores, results[i].id), maxBM25Score)
               normalizedRRFScore == NumDiv(OrZero(results[i].hybridScore), maxRRFScore)
               rrfWeight == NumSub(One, bm25Weight)
           IN [results[i] EXCEPT !.hybridScore =
                 NumAdd(NumMul(normalizedRRFScore, rrfWeight),
                        NumMul(normalizedBM25Score, bm25Weight))]]
  IN SortByHybridScore(rerankedResults)

(***************************************************************************)
(* keywordSearch's statement.  Each keyword kw gives the condition          *)
(*   content ILIKE '%<escapeSQL(kw)>%'                                      *)
(* The server reads the string literal (a doubled quote is one quote, a     *)
(* single one ends the literal; a backslash is an ordinary character) and   *)
(* matches its value as a LIKE pattern whose escape character is the        *)
(* backslash, ignoring case.                                                *)
(***************************************************************************)
Quote == "'"
Percent == "%"
Underscore == "_"
Backslash == "\\"

\* str.replace(/'/g, "''").replace(/%/g, "\\%").replace(/_/g, "\\_")
RECURSIVE escapeSQL(_)
escapeSQL(str) ==
  IF str = <<>> THEN <<>>
  ELSE (IF Head(str) = Quote THEN <<Quote, Quote>>
        ELSE IF Head(str) = Percent THEN <<Backslash, Percent>>
        ELSE IF Head(str) = Underscore THEN <<Backslash, Underscore>>
        ELSE <<Head(str)>>) \o escapeSQL(Tail(str))

\* the statement text from the opening quote of the literal on: %${escapeSQL(kw)}%'
LiteralText(kw) == <<Percent>> \o escapeSQL(kw) \o <<Percent, Quote>>

\* the server's reading of a string literal whose opening quote has been consumed
RECURSIVE ReadLiteral(_, _)
ReadLiteral(text, value) ==
  IF text = <<>> THEN [closed |-> FALSE, value |-> value, rest |-> <<>>]
  ELSE IF Head(text) = Quote
       THEN IF Len(text) >= 2 /\ text[2] = Quote
            THEN ReadLiteral(SubSeq(text, 3, Len(text)), Append(value, Quote))
            ELSE [closed |-> TRUE, value |-> value, rest |-> Tail(text)]
       ELSE ReadLiteral(Tail(text), Append(value, Head(text)))

SameLetter(a, b) == ToLowerChar(a) = ToLowerChar(b)

\* a pattern must not end with the escape character
RECURSIVE LikePatternValid(_)
LikePatternValid(pattern) ==
  IF pattern = <<>> THEN TRUE
  ELSE IF Head(pattern) = Backslash
       THEN Len(pattern) >= 2 /\ LikePatternValid(SubSeq(pattern, 3, Len(pattern)))
       ELSE LikePatternValid(Tail(pattern))

\* text ILIKE pattern
RECURSIVE LikeMatch(_, _)
LikeMatch(pattern, text) ==
  IF pattern = <<>> THEN text = <<>>
  ELSE IF Head(pattern) = Backslash
       THEN /\ Len(pattern) >= 2 /\ text # <<>>
            /\ SameLetter(pattern[2], Head(text))
            /\ LikeMatch(SubSeq(pattern, 3, Len(pattern)), Tail(text))
  ELSE IF Head(pattern) = Percent
       THEN \E k \in 0..Len(text) : LikeMatch(Tail(pattern), SubSeq(text, k + 1, Len(text)))
  ELSE IF Head(pattern) = Underscore
       THEN text # <<>> /\ LikeMatch(Tail(pattern), Tail(text))
  ELSE text # <<>> /\ SameLetter(Head(pattern), Head(text))
         /\ LikeMatch(Tail(pattern), Tail(text))

\* the condition built for kw, on a row's content: "true", "false", or "error" when
\* the literal does not end where the code ends it or the pattern is rejected
KeywordCondition(kw, content) ==
  LET lit == ReadLiteral(LiteralText(kw), <<>>)
  IN IF ~lit.closed \/ lit.rest # <<>> \/ ~LikePatternValid(lit.value) THEN "error"
     ELSE IF LikeMatch(lit.value, content) THEN "true" ELSE "false"

KeywordStatementValid(keywords) ==
  \A i \in 1..Len(keywords) :
    LET lit == ReadLiteral(LiteralText(keywords[i]), <<>>)
    IN lit.closed /\ lit.rest = <<>> /\ LikePatternValid(lit.value)

\* (CASE WHEN content ILIKE ... THEN 1 ELSE 0 END + ...) as "matchCount"
MatchCount(keywords, content) ==
  Cardinality({i \in 1..Len(keywords) : KeywordCondition(keywords[i], content) = "true"})

\* ORDER BY "matchCount" DESC, id ASC
RECURSIVE OrderRows(_)
OrderRows(rows) ==
  IF rows = {} THEN <<>>
  ELSE LET first == CHOOSE r \in rows : \A o \in rows :
                      \/ r.matchCount > o.matchCount
                      \/ r.matchCount = o.matchCount /\ r.id <= o.id
       IN <<first>> \o OrderRows(rows \ {first})

\* rows with the fields of r and the matchCount the statement computes for it
Selected(table, userId, keywords) ==
  {[id |-> r.id, matchCount |-> MatchCount(keywords, r.content)] :
     r \in {x \in table : x.userId = userId /\ MatchCount(keywords, x.content) > 0}}

\* keywordSearch's SELECT without its WHERE "userId" = $1
KeywordSelect_AllTenants(table, userId, keywords, limit) ==
  LET ordered == OrderRows({[id |-> r.id, matchCount |-> MatchCount(keywords, r.content)] :
                              r \in {x \in table : MatchCount(keywords, x.content) > 0}})
  IN SubSeq(ordered, 1, Min(limit, Len(ordered)))

\* SELECT ... FROM "Knowledge" WHERE "userId" = $1 AND (...) ORDER BY ... LIMIT $2
KeywordSelect(table, userId, keywords, limit) ==
  LET ordered == OrderRows(Selected(table, userId, keywords))
  IN SubSeq(ordered, 1, Min(limit, Len(ordered)))

(***************************************************************************)
(* VectorStoreService.similaritySearch.  A row's `similarity` is what the   *)
(* store computes for it against the query embedding,                       *)
(* 1 - (embedding <=> $1::vector), here a number of tenths.                 *)
(***************************************************************************)
DefaultMinSimilarity == Rat(3, 10)
DefaultK == 5

\* String(row.similarity): the digits before and after the decimal point
FormatSimilarity(x) ==
  LET tenths == (x.n * 10) \div x.d
  IN [units |-> tenths \div 10, tenths |-> tenths % 10]
\* parseFloat(...)
ParseSimilarity(str) == Rat(str.units * 10 + str.tenths, 10)

\* the WHERE clause without its similarity condition
SimilarRows_NoFloor(table, userId, minSimilarity) ==
  {r \in table : r.userId = userId}

\* WHERE "userId" = $2 AND 1 - (embedding <=> $1::vector) >= $3
SimilarRows(table, userId, minSimilarity) ==
  {r \in table : r.userId = userId /\ NumLeq(minSimilarity, r.similarity)}

\* ORDER BY embedding <=> $1::vector: every order of the rows by increasing distance;
\* rows at the same distance come in any order
DistanceOrders(rows) ==
  {o \in [1..Cardinality(rows) -> rows] :
     /\ \A i, j \in 1..Cardinality(rows) : i # j => o[i] # o[j]
     /\ \A i \in 1..(Cardinality(rows) - 1) : NumLeq(o[i + 1].similarity, o[i].similarity)}

\* result.rows.map(row => ({ id, content, metadata, similarity: parseFloat(row.similarity) }))
MapSimilarityRows(rows) ==
  [i \in 1..Len(rows) |->
     [id |-> rows[i].id, similarity |-> ParseSimilarity(FormatSimilarity(rows[i].similarity))]]

\* the rows similaritySearch returns for one order the store delivers them in
similaritySearch(table, userId, k, minSimilarity, order) ==
  MapSimilarityRows(SubSeq(order, 1, Min(k, Len(order))))

(***************************************************************************)
(* One retrieval: _getRelevantDocuments / getSearchResults.                *)
(***************************************************************************)
\* the operations that take a client from the pool
Holders == {"vectorSearch", "keywordSearch", "similaritySearch", "addDocuments"}

\* a pool none of whose clients is out
NewPool == [acquired |-> [h \in Holders |-> 0], released |-> [h \in Holders |-> 0]]

\* const client = await this.pool.connect()
Acquire(pl, h) == [pl EXCEPT !.acquired[h] = @ + 1]

\* client.release()
Release(pl, h) == [pl EXCEPT !.released[h] = @ + 1]

\* a new run of the operations hs: their counts start again
Restart(pl, hs) ==
  [acquired |-> [h \in Holders |-> IF h \in hs THEN 0 ELSE pl.acquired[h]],
   released |-> [h \in Holders |-> IF h \in hs THEN 0 ELSE pl.released[h]]]

\* the largest id of the rows, 0 for no row
RECURSIVE LargestId(_)
LargestId(rows) ==
  IF rows = {} THEN 0
  ELSE LET r == CHOOSE x \in rows : TRUE IN Max(r.id, LargestId(rows \ {r}))

IdleRetr ==
  [pc |-> "idle", call |-> "none", userId |-> 1, query |-> <<>>,
   limit |-> DefaultLimit, vectorWeight |-> DefaultVectorWeight,
   keywordWeight |-> DefaultKeywordWeight, useBM25Rerank |-> FALSE,
   bm25Weight |-> DefaultBm25Weight, hasService |-> FALSE, hasTokenizer |-> FALSE,
   vst |-> "idle", kst |-> "idle", keywords |-> <<>>,
   vectorResults |-> <<>>, keywordResults |-> <<>>, vfail |-> FALSE, kfail |-> FALSE,
   merged |-> <<>>, stage |-> "none", out |-> <<>>, first |-> "none",
   resultIds |-> {}]

\* Promise.all: a branch promise settles; `first` keeps which of the two settled first
Settled(r, branch) == IF r.first = "none" THEN [r EXCEPT !.first = branch] ELSE r

idxUnchanged == UNCHANGED idxVars
dbUnchanged == UNCHANGED <<store, call, tokenizer, pool, knowledgeSeq>>
svcUnchanged == UNCHANGED <<store, call, tokenizer, knowledgeSeq>>

\* the call up to the two branch calls inside Promise.all
\* a retrieval that starts its keyword branch only when the vector branch has settled
StartRetrieval_VectorFirst(entryPoint, query) ==
  /\ retr.pc = "idle"
  /\ retr' = [retr EXCEPT !.pc = "branches", !.call = entryPoint, !.query = query,
                          !.vst = "embed", !.kst = "idle"]
  /\ idxUnchanged
  /\ pool' = Restart(pool, {"vectorSearch", "keywordSearch"})
  /\ svcUnchanged

StartRetrieval(entryPoint, query) ==
  /\ retr.pc = "idle"
  /\ retr' = [retr EXCEPT !.pc = "branches", !.call = entryPoint, !.query = query,
                          !.vst = "embed", !.kst = "extract"]
  /\ idxUnchanged
  /\ pool' = Restart(pool, {"vectorSearch", "keywordSearch"})
  /\ svcUnchanged

BranchesRunning == retr.pc \in {"branches", "thrown"}

\* vectorSearch's catch: log and return []
VectorFailed(r) ==
  [Settled(r, "vector") EXCEPT !.vst = "done", !.vectorResults = <<>>, !.vfail = TRUE]

\* keywordSearch's catch: log and return []
KeywordFailed(r) ==
  [Settled(r, "keyword") EXCEPT !.kst = "done", !.keywordResults = <<>>, !.kfail = TRUE]

\* await this.embeddings.embedQuery(query)
VectorEmbed(ok) ==
  /\ BranchesRunning /\ retr.vst = "embed"
  /\ retr' = IF ok THEN [retr EXCEPT !.vst = "connect"] ELSE VectorFailed(retr)
  /\ idxUnchanged
  /\ dbUnchanged

\* await this.pool.connect()
VectorConnect(ok) ==
  /\ BranchesRunning /\ retr.vst = "connect"
  /\ retr' = IF ok THEN [retr EXCEPT !.vst = "query"] ELSE VectorFailed(retr)
  /\ idxUnchanged
  /\ pool' = IF ok THEN Acquire(pool, "vectorSearch") ELSE pool
  /\ svcUnchanged

\* a vector branch whose failure leaves vectorSearch as an exception
VectorQuery_Propagates ==
  /\ BranchesRunning /\ retr.vst = "query"
  /\ retr' = [VectorFailed(retr) EXCEPT !.pc = "thrown"]
  /\ idxUnchanged
  /\ pool' = Release(pool, "vectorSearch")
  /\ svcUnchanged

\* await client.query(...): the statement holds a line of TypeScript where its
\* similarity condition belongs and is rejected by the server; finally, catch
VectorQuery ==
  /\ BranchesRunning /\ retr.vst = "query"
  /\ retr' = VectorFailed(retr)
  /\ idxUnchanged
  /\ pool' = Release(pool, "vectorSearch")
  /\ svcUnchanged

\* this.extractKeywords(query)
RetrieverKeywords(r) ==
  IF r.hasTokenizer THEN extractKeywords(r.query, MaxKeywords)
  ELSE builtinExtractKeywords(r.query)

\* await this.extractKeywords(query); no keyword, no query
KeywordExtract ==
  /\ BranchesRunning /\ retr.kst = "extract"
  /\ LET keywords == RetrieverKeywords(retr)
     IN retr' = IF keywords = <<>>
                THEN [Settled(retr, "keyword") EXCEPT !.kst = "done", !.keywords = keywords,
                                                       !.keywordResults = <<>>]
                ELSE [retr EXCEPT !.kst = "connect", !.keywords = keywords]
  /\ idxUnchanged
  /\ dbUnchanged

KeywordConnect(ok) ==
  /\ BranchesRunning /\ retr.kst = "connect"
  /\ retr' = IF ok THEN [retr EXCEPT !.kst = "query"] ELSE KeywordFailed(retr)
  /\ idxUnchanged
  /\ pool' = IF ok THEN Acquire(pool, "keywordSearch") ELSE pool
  /\ svcUnchanged

\* await client.query(...): the rows the statement selects from the table
KeywordQuery ==
  /\ BranchesRunning /\ retr.kst = "query"
  /\ KeywordStatementValid(retr.keywords)
  /\ retr' = [Settled(retr, "keyword") EXCEPT
                 !.kst = "done",
                 !.keywordResults =
                   KeywordSelect(store, retr.userId, retr.keywords, retr.limit * 2)]
  /\ idxUnchanged
  /\ pool' = Release(pool, "keywordSearch")
  /\ svcUnchanged

\* await client.query(...) throws
KeywordQueryThrows ==
  /\ BranchesRunning /\ retr.kst = "query"
  /\ retr' = KeywordFailed(retr)
  /\ idxUnchanged
  /\ pool' = Release(pool, "keywordSearch")
  /\ svcUnchanged

\* a branch's list as a race of the two promises would see it: the list of the branch
\* that settled first, nothing of the other
RaceVector == IF retr.first = "vector" THEN retr.vectorResults ELSE <<>>
RaceKeyword == IF retr.first = "keyword" THEN retr.keywordResults ELSE <<>>

\* a fusion of what the first settled branch gave, instead of Promise.all's two lists
Fuse_FirstSettledOnly ==
  /\ retr.pc = "branches" /\ retr.vst = "done" /\ retr.kst = "done"
  /\ LET mergedResults == mergeResultsWithRRF(RaceVector, RaceKeyword,
                                               retr.vectorWeight, retr.keywordWeight, retr.limit)
         skip == IF ~retr.useBM25Rerank THEN "disabled"
                 ELSE IF ~retr.hasService THEN "noservice"
                 ELSE IF mergedResults = <<>> THEN "empty"
                 ELSE IF ~hasIndex(retr.userId) THEN "noindex"
                 ELSE "none"
     IN IF skip # "none"
        THEN /\ retr' = [retr EXCEPT !.pc = "returned", !.merged = mergedResults,
                                     !.stage = skip, !.out = mergedResults]
             /\ idxUnchanged
             /\ dbUnchanged
        ELSE /\ retr' = [retr EXCEPT !.pc = "rerank", !.merged = mergedResults,
                                     !.resultIds = RowIds(mergedResults)]
             /\ heap' = [heap EXCEPT ![indexCache[retr.userId]].lastAccessed = now]
             /\ UNCHANGED <<indexCache, procs, now, last>>
             /\ dbUnchanged

\* Promise.all has both lists: fuse, then return or enter the rerank stage up to
\* its await of getScoresForDocuments (which marks the index as accessed)
Fuse ==
  /\ retr.pc = "branches" /\ retr.vst = "done" /\ retr.kst = "done"
  /\ LET mergedResults == mergeResultsWithRRF(retr.vectorResults, retr.keywordResults,
                                               retr.vectorWeight, retr.keywordWeight, retr.limit)
         skip == IF ~retr.useBM25Rerank THEN "disabled"
                 ELSE IF ~retr.hasService THEN "noservice"
                 ELSE IF mergedResults = <<>> THEN "empty"
                 ELSE IF ~hasIndex(retr.userId) THEN "noindex"
                 ELSE "none"
     IN IF skip # "none"
        THEN /\ retr' = [retr EXCEPT !.pc = "returned", !.merged = mergedResults,
                                     !.stage = skip, !.out = mergedResults]
             /\ idxUnchanged
             /\ dbUnchanged
        ELSE /\ retr' = [retr EXCEPT !.pc = "rerank", !.merged = mergedResults,
                                     !.resultIds = RowIds(mergedResults)]
             /\ heap' = [heap EXCEPT ![indexCache[retr.userId]].lastAccessed = now]
             /\ UNCHANGED <<indexCache, procs, now, last>>
             /\ dbUnchanged

\* getScoresForDocuments resumes after the tokenizer; when the search of the index
\* throws, its catch returns an empty map; the rerank stage then combines and sorts
RerankResume(searchThrows) ==
  /\ retr.pc = "rerank"
  /\ LET entry == heap[indexCache[retr.userId]]
         bm25Scores == IF searchThrows THEN <<>>
                       ELSE ScoresEntry(entry, retr.query, retr.resultIds)
     IN retr' = [retr EXCEPT !.pc = "returned",
                             !.stage = IF searchThrows THEN "faulted" ELSE "applied",
                             !.out = rerankScores(retr.merged, bm25Scores, retr.bm25Weight)]
  /\ idxUnchanged
  /\ dbUnchanged

NoCall == [fn |-> "none"]

\* private jiebaLoaded = false, onModuleInit not yet run
NewTokenizer == [jiebaLoaded |-> FALSE, init |-> "new"]

SvcInit == tokenizer = NewTokenizer /\ pool = NewPool /\ knowledgeSeq = LargestId(store)

RetrInit == retr = IdleRetr /\ store = {} /\ call = NoCall /\ SvcInit

InitIdx ==
  /\ indexCache = [t \in Tenants |-> 0]
  /\ heap = [h \in Handles |-> NewIndex]
  /\ procs = [p \in Procs |-> IdleProc]
  /\ now = 0
  /\ last = NoLast

Init == InitIdx /\ RetrInit

(***************************************************************************)
(* Spec: two callers on one tenant, their calls interleaved at the awaits. *)
(* p1 issues addDocument and the queries, p2 addDocument and buildIndex;   *)
(* removeDocument, clearIndex and the sweep are synchronous.               *)
(***************************************************************************)
SpecTenants == {1}
Writers == {"p2"}
ConcDocuments == { [id |-> 1, content |-> TextCat], [id |-> 2, content |-> TextTheTea] }
ConcBuilds == { <<>>, <<[id |-> 1, content |-> TextCat]>>,
                <<[id |-> 1, content |-> TextCat], [id |-> 2, content |-> TextTheTea]>> }
ConcQueries == { <<"T", "e", "a", " ", "c", "a", "t">> }
ConcLimits == {10}
ConcIdSets == {{1}}

Next ==
  \/ \E p \in Writers, t \in SpecTenants, documents \in ConcBuilds : BuildIndexCall(p, t, documents)
  \/ \E p \in Procs : BuildIndexResume(p)
  \/ \E p \in Procs, t \in SpecTenants, document \in ConcDocuments : AddDocumentCall(p, t, document)
  \/ \E p \in Procs : AddDocumentResume(p)
  \/ \E t \in SpecTenants, id \in DocIds : RemoveDocument(t, id)
  \/ \E p \in Readers, t \in SpecTenants, q \in ConcQueries, l \in ConcLimits : SearchCall(p, t, q, l)
  \/ \E p \in Readers, t \in SpecTenants, q \in ConcQueries, ids \in ConcIdSets : GetScoresCall(p, t, q, ids)
  \/ \E p \in Readers : SearchResume(p)
  \/ \E p \in Readers : GetScoresResume(p)
  \/ \E t \in SpecTenants : ClearIndex(t)
  \/ CleanupIdleIndexes
  \/ Tick

Spec == Init /\ [][Next]_vars

(***************************************************************************)
(* SpecSeq: one caller that awaits every call before it makes the next,    *)
(* with the full sets of documents, document lists and queries.            *)
(***************************************************************************)
SeqTenants == {1}

NextSeq ==
  \/ \E p \in Readers, t \in SeqTenants, documents \in BuildInputs : BuildIndexCall(p, t, documents)
  \/ \E p \in Readers : BuildIndexResume(p)
  \/ \E p \in Readers, t \in SeqTenants, document \in Documents : AddDocumentCall(p, t, document)
  \/ \E p \in Readers : AddDocumentResume(p)
  \/ \E t \in SeqTenants, id \in DocIds : procs["p1"].pc = "idle" /\ RemoveDocument(t, id)
  \/ \E p \in Readers, t \in SeqTenants, q \in Queries, l \in Limits : SearchCall(p, t, q, l)
  \/ \E p \in Readers, t \in SeqTenants, q \in Queries, ids \in IdSets : GetScoresCall(p, t, q, ids)
  \/ \E p \in Readers : SearchResume(p)
  \/ \E p \in Readers : GetScoresResume(p)
  \/ \E t \in SeqTenants : procs["p1"].pc = "idle" /\ ClearIndex(t)
  \/ procs["p1"].pc = "idle" /\ CleanupIdleIndexes
  \/ procs["p1"].pc = "idle" /\ Tick

SpecSeq == Init /\ [][NextSeq]_vars

(***************************************************************************)
(* SpecTen: two tenants and one caller that awaits every call, on a clock  *)
(* that can stand one millisecond before, at and after the idle timeout.   *)
(***************************************************************************)
ClockInstants == {0, 1, IDLE_TIMEOUT, IDLE_TIMEOUT + 1}
ClockSteps == {1, IDLE_TIMEOUT - 1, IDLE_TIMEOUT}
CallerIdle == procs["p1"].pc = "idle"

NextTen ==
  \/ \E p \in Readers, t \in Tenants, documents \in ConcBuilds : BuildIndexCall(p, t, documents)
  \/ \E p \in Readers : BuildIndexResume(p)
  \/ \E p \in Readers, t \in Tenants, document \in ConcDocuments : AddDocumentCall(p, t, document)
  \/ \E p \in Readers : AddDocumentResume(p)
  \/ \E t \in Tenants, id \in DocIds : CallerIdle /\ RemoveDocument(t, id)
  \/ \E p \in Readers, t \in Tenants, q \in ConcQueries, l \in ConcLimits : SearchCall(p, t, q, l)
  \/ \E p \in Readers, t \in Tenants, q \in ConcQueries, ids \in ConcIdSets : GetScoresCall(p, t, q, ids)
  \/ \E p \in Readers : SearchResume(p)
  \/ \E p \in Readers : GetScoresResume(p)
  \/ \E t \in Tenants : CallerIdle /\ HasIndexCall(t)
  \/ \E t \in Tenants : CallerIdle /\ ClearIndex(t)
  \/ CallerIdle /\ CleanupIdleIndexes
  \/ \E d \in ClockSteps : CallerIdle /\ now + d \in ClockInstants /\ TickBy(d)

SpecTen == Init /\ [][NextTen]_vars

(***************************************************************************)
(* SpecRetr: one retrieval, from the call to its return, on a tenant whose *)
(* lexical index was built beforehand or is missing.                       *)
(***************************************************************************)
TextCatTea == <<"c", "a", "t", " ", "t", "e", "a">>
RetrQueries == { <<"T", "e", "a", " ", "c", "a", "t">>, <<"t", "h", "e">> }
RetrLimits == {1, DefaultLimit}
RetrBm25Weights == {Zero, DefaultBm25Weight, One}
RetrBuilds == { <<[id |-> 1, content |-> TextCat], [id |-> 2, content |-> TextTheTea]>>,
                <<[id |-> 1, content |-> TextCatTea], [id |-> 2, content |-> TextTheTea]>> }

RECURSIVE AddDocs(_, _)
AddDocs(e, documents) ==
  IF documents = <<>> THEN e ELSE AddDocs(AddDoc(e, Head(documents)), Tail(documents))

\* the IndexEntry buildIndex leaves in the cache for a document list
BuiltEntry(documents) == [AddDocs(NewIndex, documents) EXCEPT !.documentCount = Len(documents)]

\* the index service after buildIndex(1, documents), or with no index at all
IndexInit(built, documents) ==
  /\ indexCache = [t \in Tenants |-> IF built /\ t = 1 THEN 1 ELSE 0]
  /\ heap = [h \in Handles |-> IF built /\ h = 1 THEN BuiltEntry(documents) ELSE NewIndex]
  /\ procs = [p \in Procs |-> IdleProc]
  /\ now = 0
  /\ last = NoLast

\* contents of the "Knowledge" table: rows of tenant 1, and one of tenant 2
KnowledgeTables ==
  { {},
    { [id |-> 1, userId |-> 1, content |-> TextCat],
      [id |-> 2, userId |-> 1, content |-> TextTheTea],
      [id |-> 3, userId |-> 2, content |-> TextCatTea] },
    { [id |-> 1, userId |-> 1, content |-> TextTheTea],
      [id |-> 2, userId |-> 1, content |-> TextCatTea] } }

InitRetr ==
  /\ store \in KnowledgeTables
  /\ SvcInit
  /\ call = NoCall
  /\ \E built \in BOOLEAN, documents \in RetrBuilds :
       /\ ~built => documents = CHOOSE d \in RetrBuilds : TRUE
       /\ IndexInit(built, documents)
  /\ \E limit \in RetrLimits, useBM25Rerank \in BOOLEAN, hasService \in BOOLEAN,
        hasTokenizer \in BOOLEAN, bm25Weight \in RetrBm25Weights :
       retr = [IdleRetr EXCEPT !.limit = limit, !.useBM25Rerank = useBM25Rerank,
                               !.hasService = hasService, !.hasTokenizer = hasTokenizer,
                               !.bm25Weight = bm25Weight]

NextRetr ==
  \/ \E entryPoint \in {"_getRelevantDocuments", "getSearchResults"}, query \in RetrQueries :
       StartRetrieval(entryPoint, query)
  \/ \E ok \in BOOLEAN : VectorEmbed(ok)
  \/ \E ok \in BOOLEAN : VectorConnect(ok)
  \/ VectorQuery
  \/ KeywordExtract
  \/ \E ok \in BOOLEAN : KeywordConnect(ok)
  \/ KeywordQuery
  \/ KeywordQueryThrows
  \/ Fuse
  \/ \E searchThrows \in BOOLEAN : RerankResume(searchThrows)

SpecRetr == InitRetr /\ [][NextRetr]_vars

(***************************************************************************)
(* SpecIso: two tenants.  One caller works on the indexes of both, then a  *)
(* retriever constructed for one of them runs a retrieval over a table     *)
(* that holds rows of both.                                                *)
(***************************************************************************)
IsoBuilds == { <<[id |-> 1, content |-> TextCat], [id |-> 2, content |-> TextTheTea]>> }
RetrieverIdle == retr.pc = "idle"

InitIso ==
  /\ InitIdx
  /\ store \in KnowledgeTables \ {{}}
  /\ SvcInit
  /\ call = NoCall
  /\ \E userId \in Tenants :
       retr = [IdleRetr EXCEPT !.userId = userId, !.useBM25Rerank = TRUE,
                               !.hasService = TRUE, !.hasTokenizer = TRUE]

NextIso ==
  \/ \E p \in Readers, t \in Tenants, documents \in IsoBuilds :
       RetrieverIdle /\ BuildIndexCall(p, t, documents)
  \/ \E p \in Readers : BuildIndexResume(p)
  \/ \E p \in Readers, t \in Tenants, document \in ConcDocuments :
       RetrieverIdle /\ AddDocumentCall(p, t, document)
  \/ \E p \in Readers : AddDocumentResume(p)
  \/ \E t \in Tenants, id \in DocIds : RetrieverIdle /\ CallerIdle /\ RemoveDocument(t, id)
  \/ \E p \in Readers, t \in Tenants, q \in ConcQueries, l \in ConcLimits :
       RetrieverIdle /\ SearchCall(p, t, q, l)
  \/ \E p \in Readers, t \in Tenants, q \in ConcQueries, ids \in ConcIdSets :
       RetrieverIdle /\ GetScoresCall(p, t, q, ids)
  \/ \E p \in Readers : SearchResume(p)
  \/ \E p \in Readers : GetScoresResume(p)
  \/ \E t \in Tenants : RetrieverIdle /\ CallerIdle /\ HasIndexCall(t)
  \/ \E t \in Tenants : RetrieverIdle /\ CallerIdle /\ ClearIndex(t)
  \/ \E query \in RetrQueries : CallerIdle /\ StartRetrieval("getSearchResults", query)
  \/ \E ok \in BOOLEAN : VectorEmbed(ok)
  \/ \E ok \in BOOLEAN : VectorConnect(ok)
  \/ VectorQuery
  \/ KeywordExtract
  \/ \E ok \in BOOLEAN : KeywordConnect(ok)
  \/ KeywordQuery
  \/ KeywordQueryThrows
  \/ Fuse
  \/ \E searchThrows \in BOOLEAN : RerankResume(searchThrows)

SpecIso == InitIso /\ [][NextIso]_vars

(***************************************************************************)
(* SpecEsc: the condition keywordSearch builds for one keyword, evaluated  *)
(* by the server on the content of one row.                                *)
(***************************************************************************)
MaxKeywordLen == 2
MaxContentLen == 3
SqlChars == {"a", "A", Percent, Underscore, Quote, Backslash}
StringsUpTo(n) == UNION {[1..k -> SqlChars] : k \in 0..n}

InitEsc ==
  /\ InitIdx
  /\ retr = IdleRetr
  /\ store = {}
  /\ SvcInit
  /\ \E kw \in StringsUpTo(MaxKeywordLen) \ {<<>>}, content \in StringsUpTo(MaxContentLen) :
       call = [fn |-> "keywordCondition", kw |-> kw, content |-> content,
               done |-> FALSE, ret |-> "none"]

\* the server evaluates content ILIKE '%${this.escapeSQL(kw)}%' on the row
EvaluateKeywordCondition ==
  /\ call.fn = "keywordCondition" /\ ~call.done
  /\ call' = [call EXCEPT !.done = TRUE, !.ret = KeywordCondition(call.kw, call.content)]
  /\ UNCHANGED <<indexCache, heap, procs, now, last, retr, store, tokenizer, pool, knowledgeSeq>>

NextEsc == EvaluateKeywordCondition

SpecEsc == InitEsc /\ [][NextEsc]_vars

(***************************************************************************)
(* SpecVec: the two vector searches of the repository over one table:      *)
(* VectorStoreService.similaritySearch and the retriever's vector branch.  *)
(***************************************************************************)
MaxVectorRows == 4
VecSimilarities == {Rat(2, 10), Rat(3, 10), Rat(4, 10), Rat(9, 10)}
VecLimits == {1, 2, DefaultK}
VecFloors == {DefaultMinSimilarity, Rat(1, 2)}

\* rows 1..MaxVectorRows; the last one may belong to another tenant
VectorTables ==
  { {[id |-> i, userId |-> IF i = MaxVectorRows THEN u ELSE 1, content |-> TextCat,
      similarity |-> sim[i]] : i \in 1..MaxVectorRows} :
      sim \in [1..MaxVectorRows -> VecSimilarities], u \in Tenants }

\* similaritySearch(query, userId, k, minSimilarity) before its first await returns
SimilaritySearchArgs(userId, k, minSimilarity) ==
  [fn |-> "similaritySearch", userId |-> userId, k |-> k, minSimilarity |-> minSimilarity,
   done |-> FALSE, threw |-> FALSE, failedAt |-> "none", ret |-> <<>>]

InitVec ==
  /\ InitIdx
  /\ retr = IdleRetr
  /\ store \in VectorTables
  /\ SvcInit
  /\ \E k \in VecLimits, minSimilarity \in VecFloors :
       call = SimilaritySearchArgs(1, k, minSimilarity)

\* ensureInitialized, embedQuery, pool.connect and client.query succeed; the rows
\* come back in one of the orders the ORDER BY allows
SimilaritySearchReturns ==
  /\ call.fn = "similaritySearch" /\ ~call.done
  /\ \E order \in DistanceOrders(SimilarRows(store, call.userId, call.minSimilarity)) :
       call' = [call EXCEPT !.done = TRUE,
                            !.ret = similaritySearch(store, call.userId, call.k,
                                                     call.minSimilarity, order)]
  /\ pool' = Release(Acquire(pool, "similaritySearch"), "similaritySearch")
  /\ UNCHANGED <<indexCache, heap, procs, now, last, retr, store, tokenizer, knowledgeSeq>>

\* the awaits of similaritySearch that can reject
SimilarityAwaits == {"embedQuery", "connect", "query"}

\* a similaritySearch whose failing query leaves its client out
SimilaritySearchThrows_Leaks(failedAt) ==
  /\ call.fn = "similaritySearch" /\ ~call.done
  /\ call' = [call EXCEPT !.done = TRUE, !.threw = TRUE, !.failedAt = failedAt]
  /\ pool' = IF failedAt = "query" THEN Acquire(pool, "similaritySearch") ELSE pool
  /\ UNCHANGED <<indexCache, heap, procs, now, last, retr, store, tokenizer, knowledgeSeq>>

\* one of the awaited calls rejects: there is no catch, the caller gets the exception;
\* a client is out only when it is the query that rejects, and finally releases it
SimilaritySearchThrows(failedAt) ==
  /\ call.fn = "similaritySearch" /\ ~call.done
  /\ call' = [call EXCEPT !.done = TRUE, !.threw = TRUE, !.failedAt = failedAt]
  /\ pool' = IF failedAt = "query"
             THEN Release(Acquire(pool, "similaritySearch"), "similaritySearch")
             ELSE pool
  /\ UNCHANGED <<indexCache, heap, procs, now, last, retr, store, tokenizer, knowledgeSeq>>

NextVec ==
  \/ SimilaritySearchReturns
  \/ \E failedAt \in SimilarityAwaits : SimilaritySearchThrows(failedAt)
  \/ \E query \in RetrQueries : StartRetrieval("getSearchResults", query)
  \/ \E ok \in BOOLEAN : VectorEmbed(ok)
  \/ \E ok \in BOOLEAN : VectorConnect(ok)
  \/ VectorQuery

SpecVec == InitVec /\ [][NextVec]_vars

(***************************************************************************)
(* SpecScn: a retrieval, rerank off, whose collaborators all work: the     *)
(* embedding service answers, the pool hands out clients, and the table    *)
(* holds chunks with their similarity to the query.                        *)
(***************************************************************************)
InitScn ==
  /\ InitIdx
  /\ store \in VectorTables
  /\ SvcInit
  /\ call = NoCall
  /\ \E limit \in RetrLimits : retr = [IdleRetr EXCEPT !.limit = limit]

NextScn ==
  \/ \E query \in RetrQueries : StartRetrieval("getSearchResults", query)
  \/ VectorEmbed(TRUE)
  \/ VectorConnect(TRUE)
  \/ VectorQuery
  \/ KeywordExtract
  \/ KeywordConnect(TRUE)
  \/ KeywordQuery
  \/ Fuse

SpecScn == InitScn /\ [][NextScn]_vars

(***************************************************************************)
(* SpecRep: the caller of a retrieval keeps what it returned and calls     *)
(* again with the same query, over the same table and index.               *)
(***************************************************************************)
\* the retriever between two calls: its options stay, the locals of the call go
Between(r) ==
  [IdleRetr EXCEPT !.userId = r.userId, !.limit = r.limit, !.vectorWeight = r.vectorWeight,
                   !.keywordWeight = r.keywordWeight, !.useBM25Rerank = r.useBM25Rerank,
                   !.bm25Weight = r.bm25Weight, !.hasService = r.hasService,
                   !.hasTokenizer = r.hasTokenizer]

\* the first call has returned; the caller calls again with the same query
RetrieveAgain ==
  /\ retr.pc = "returned" /\ call = NoCall
  /\ call' = [fn |-> "retrieval", run |-> retr]
  /\ retr' = [Between(retr) EXCEPT !.pc = "branches", !.call = retr.call,
                                   !.query = retr.query, !.vst = "embed", !.kst = "extract"]
  /\ pool' = Restart(pool, {"vectorSearch", "keywordSearch"})
  /\ UNCHANGED <<indexCache, heap, procs, now, last, store, tokenizer, knowledgeSeq>>

InitRep ==
  /\ \E built \in BOOLEAN : IndexInit(built, CHOOSE d \in RetrBuilds : TRUE)
  /\ store \in KnowledgeTables
  /\ SvcInit
  /\ call = NoCall
  /\ \E limit \in RetrLimits, useBM25Rerank \in BOOLEAN :
       retr = [IdleRetr EXCEPT !.limit = limit, !.useBM25Rerank = useBM25Rerank,
                               !.hasService = TRUE]

NextRep ==
  \/ NextRetr
  \/ RetrieveAgain

SpecRep == InitRep /\ [][NextRep]_vars

(***************************************************************************)
(* SpecTok: one call of TokenizerService.tokenize or extractKeywords, on   *)
(* either backend.                                                         *)
(***************************************************************************)
DefaultMaxKeywords == 10
TokTexts == { <<"C", "a", "t">>,
              <<"t", "h", "e", " ", "C", "a", "t">>,
              <<"t", "e", "a", " ", "c", "a", "t", " ", "c", "a", "t">>,
              <<"c", "a", "t", " ", "t", "e", "a">>,
              <<"zh_wen", "zh_de", "zh_wen">>,
              <<" ">> }
TokMinLengths == {1, 2}
TokMaxLengths == {2, 3, DefaultMaxWordLength}
TokMaxKeywords == {1, 2, DefaultMaxKeywords}

InitTok ==
  /\ InitIdx
  /\ retr = IdleRetr
  /\ store = {}
  /\ SvcInit
  /\ \E text \in TokTexts, jiebaLoaded \in BOOLEAN :
       \/ \E filterStopWords \in BOOLEAN, minWordLength \in TokMinLengths,
             maxWordLength \in TokMaxLengths :
            call = [fn |-> "tokenize", text |-> text, jiebaLoaded |-> jiebaLoaded,
                    filterStopWords |-> filterStopWords, minWordLength |-> minWordLength,
                    maxWordLength |-> maxWordLength, maxKeywords |-> 0,
                    done |-> FALSE, tokens |-> <<>>, ret |-> <<>>]
       \/ \E maxKeywords \in TokMaxKeywords :
            call = [fn |-> "extractKeywords", text |-> text, jiebaLoaded |-> jiebaLoaded,
                    filterStopWords |-> TRUE, minWordLength |-> 2,
                    maxWordLength |-> DefaultMaxWordLength, maxKeywords |-> maxKeywords,
                    done |-> FALSE, tokens |-> <<>>, ret |-> <<>>]

TokCallPending == call.fn \in {"tokenize", "extractKeywords"} /\ ~call.done

\* what the call returns once tokenize has given `tokens`
Returned(c, tokens) ==
  [c EXCEPT !.done = TRUE, !.tokens = tokens,
            !.ret = IF c.fn = "tokenize" THEN tokens ELSE KeywordsOf(tokens, c.maxKeywords)]

\* jiebaLoaded is false, or jieba.cut throws: fallbackTokenize, then postProcess
TokenizeFallback ==
  /\ TokCallPending
  /\ call' = Returned(call, tokenize(call.text, call.filterStopWords, call.minWordLength,
                                     call.maxWordLength))
  /\ UNCHANGED <<indexCache, heap, procs, now, last, retr, store, tokenizer, pool, knowledgeSeq>>

\* jiebaLoaded is true and jieba.cut returns its pieces, then postProcess
TokenizeJieba ==
  /\ TokCallPending /\ call.jiebaLoaded
  /\ \E pieces \in jiebaCut(call.text) :
       call' = Returned(call, tokenizeJieba(call.text, pieces, call.filterStopWords,
                                            call.minWordLength, call.maxWordLength))
  /\ UNCHANGED <<indexCache, heap, procs, now, last, retr, store, tokenizer, pool, knowledgeSeq>>

NextTok ==
  \/ TokenizeFallback
  \/ TokenizeJieba

SpecTok == InitTok /\ [][NextTok]_vars

(***************************************************************************)
(* SpecLife: the TokenizerService from its construction on: onModuleInit   *)
(* tries to load jieba once, tokenize is called at any time, before,       *)
(* during and after that.                                                  *)
(***************************************************************************)
\* onModuleInit: await this.initializeJieba(), up to its await import("jieba-js")
OnModuleInit ==
  /\ tokenizer.init = "new"
  /\ tokenizer' = [tokenizer EXCEPT !.init = "loading"]
  /\ UNCHANGED <<indexCache, heap, procs, now, last, retr, store, call, pool, knowledgeSeq>>

\* initializeJieba resumes: the import and jieba.load() worked, or its catch ran
InitializeJiebaDone(ok) ==
  /\ tokenizer.init = "loading"
  /\ tokenizer' = [tokenizer EXCEPT !.init = "done", !.jiebaLoaded = ok]
  /\ UNCHANGED <<indexCache, heap, procs, now, last, retr, store, call, pool, knowledgeSeq>>

\* a tokenize that loads jieba on demand and marks it loaded
TokenizeCall_LoadsOnDemand(text, filterStopWords, minWordLength, maxWordLength) ==
  /\ IF call.fn = "none" THEN TRUE ELSE call.done
  /\ call' = [fn |-> "tokenize", text |-> text, jiebaLoaded |-> TRUE,
              filterStopWords |-> filterStopWords, minWordLength |-> minWordLength,
              maxWordLength |-> maxWordLength, maxKeywords |-> 0,
              done |-> FALSE, tokens |-> <<>>, ret |-> <<>>, initAtCall |-> tokenizer.init]
  /\ tokenizer' = [tokenizer EXCEPT !.jiebaLoaded = TRUE]
  /\ UNCHANGED <<indexCache, heap, procs, now, last, retr, store, pool, knowledgeSeq>>

\* tokenize(text, options) up to its test of this.jiebaLoaded
TokenizeCall(text, filterStopWords, minWordLength, maxWordLength) ==
  /\ IF call.fn = "none" THEN TRUE ELSE call.done
  /\ call' = [fn |-> "tokenize", text |-> text, jiebaLoaded |-> tokenizer.jiebaLoaded,
              filterStopWords |-> filterStopWords, minWordLength |-> minWordLength,
              maxWordLength |-> maxWordLength, maxKeywords |-> 0,
              done |-> FALSE, tokens |-> <<>>, ret |-> <<>>, initAtCall |-> tokenizer.init]
  /\ UNCHANGED <<indexCache, heap, procs, now, last, retr, store, tokenizer, pool, knowledgeSeq>>

InitLife ==
  /\ InitIdx
  /\ retr = IdleRetr
  /\ store = {}
  /\ call = NoCall
  /\ SvcInit

NextLife ==
  \/ OnModuleInit
  \/ \E ok \in BOOLEAN : InitializeJiebaDone(ok)
  \/ \E text \in TokTexts, filterStopWords \in BOOLEAN, minWordLength \in TokMinLengths :
       TokenizeCall(text, filterStopWords, minWordLength, DefaultMaxWordLength)
  \/ TokenizeFallback
  \/ TokenizeJieba

SpecLife == InitLife /\ [][NextLife]_vars

(***************************************************************************)
(* SpecIdem: tokenize on the n-gram backend, applied to a Latin text and   *)
(* then to its own output joined by single spaces.                         *)
(***************************************************************************)
MaxTextLen == 4
IdemChars == {"a", "e", "h", "t", "T", Blank}
IdemTexts == UNION {[1..k -> IdemChars] : k \in 0..MaxTextLen}

\* tokens.join(" ")
RECURSIVE JoinBySpace(_)
JoinBySpace(tokens) ==
  IF tokens = <<>> THEN <<>>
  ELSE IF Len(tokens) = 1 THEN tokens[1]
  ELSE tokens[1] \o <<Blank>> \o JoinBySpace(Tail(tokens))

InitIdem ==
  /\ InitIdx
  /\ retr = IdleRetr
  /\ store = {}
  /\ SvcInit
  /\ \E text \in IdemTexts, filterStopWords \in BOOLEAN, minWordLength \in TokMinLengths,
        maxWordLength \in TokMaxLengths :
       call = [fn |-> "tokenizeTwice", text |-> text, filterStopWords |-> filterStopWords,
               minWordLength |-> minWordLength, maxWordLength |-> maxWordLength,
               stage |-> 0, once |-> <<>>, twice |-> <<>>]

\* tokenize(text, options)
TokenizeOriginal ==
  /\ call.fn = "tokenizeTwice" /\ call.stage = 0
  /\ call' = [call EXCEPT !.stage = 1,
                          !.once = tokenize(call.text, call.filterStopWords,
                                            call.minWordLength, call.maxWordLength)]
  /\ UNCHANGED <<indexCache, heap, procs, now, last, retr, store, tokenizer, pool, knowledgeSeq>>

\* tokenize(output.join(" "), options)
TokenizeJoined ==
  /\ call.fn = "tokenizeTwice" /\ call.stage = 1
  /\ call' = [call EXCEPT !.stage = 2,
                          !.twice = tokenize(JoinBySpace(call.once), call.filterStopWords,
                                             call.minWordLength, call.maxWordLength)]
  /\ UNCHANGED <<indexCache, heap, procs, now, last, retr, store, tokenizer, pool, knowledgeSeq>>

NextIdem ==
  \/ TokenizeOriginal
  \/ TokenizeJoined

SpecIdem == InitIdem /\ [][NextIdem]_vars

(***************************************************************************)
(* SpecFuse: rank fusion and rerank as functions of the two branch lists.  *)
(***************************************************************************)
FuseWeights == { <<DefaultVectorWeight, DefaultKeywordWeight>>, <<Rat(1, 2), Rat(1, 2)>> }

InitFuse ==
  /\ store = {}
  /\ SvcInit
  /\ call = NoCall
  /\ \E built \in BOOLEAN, documents \in RetrBuilds :
       /\ ~built => documents = CHOOSE d \in RetrBuilds : TRUE
       /\ IndexInit(built, documents)
  /\ \E limit \in RetrLimits, w \in FuseWeights, bm25Weight \in RetrBm25Weights,
        vectorResults \in VectorLists, keywordResults \in KeywordLists :
       retr = [IdleRetr EXCEPT !.pc = "branches", !.call = "getSearchResults",
                               !.query = <<"T", "e", "a", " ", "c", "a", "t">>,
                               !.limit = limit, !.vectorWeight = w[1], !.keywordWeight = w[2],
                               !.useBM25Rerank = TRUE, !.hasService = TRUE,
                               !.bm25Weight = bm25Weight, !.vst = "done", !.kst = "done",
                               !.vectorResults = vectorResults,
                               !.keywordResults = keywordResults]

NextFuse ==
  \/ Fuse
  \/ \E searchThrows \in BOOLEAN : RerankResume(searchThrows)

SpecFuse == InitFuse /\ [][NextFuse]_vars

(***************************************************************************)
(* Claims on the lexical index manager.                                    *)
(***************************************************************************)
AddThenRemoved == last.op = "removeDocument" /\ last.path = "afterAdd"

\* C1: once addDocument(t, D) has completed and removeDocument(t, D.id) has been called
\* right after it, no search on t returns D.id, whatever the query and the limit, and
\* getDocumentCount(t) is what it was before the addDocument (0 when t had no index).
C1_AddRemoveRestores ==
  AddThenRemoved =>
    /\ getDocumentCount(last.t) = last.pre
    /\ \A q \in Queries, l \in Limits : last.id \notin ResultIds(SearchNow(last.t, q, l))

\* the pair ran on an index that already held a document and that still answers queries
C1_Witness ==
  /\ AddThenRemoved
  /\ last.pre = 1
  /\ \E q \in Queries, l \in Limits : SearchNow(last.t, q, l) # <<>>

StructuralOverlap(ov) == ov.k \in {"struct", "rival"}

\* C8: when buildIndex, clearIndex or the eviction sweep ran on tenant T while an
\* addDocument(T, D) was suspended in the tokenizer, then at the return of that
\* addDocument T has a cached index and D is in it.
C8_AddLandsInCachedIndex ==
  (last.op = "addDocument" /\ StructuralOverlap(last.ov)) =>
    (last.obs.has /\ last.id \in last.obs.ids)

\* C9: when two addDocument calls for one tenant without an index, with different ids,
\* overlap (both take the build path), then after the second has returned the tenant's
\* index holds both documents and getDocumentCount is 2.
C9_ConcurrentAddsBothKept ==
  (/\ last.op = "addDocument" /\ last.path = "build"
   /\ last.ov.k = "rival" /\ last.ov.id # last.id) =>
    (last.obs.cnt = 2 /\ last.obs.ids = {last.id, last.ov.id})

FromSnapshot(r) ==
  IF r.op = "search" THEN SearchEntry(r.snap, r.q, r.lim) ELSE ScoresEntry(r.snap, r.q, r.ids)

\* C10: a search or getScoresForDocuments call that overlapped eviction, clearIndex or
\* buildIndex of its tenant returns what the index cached at its start gives for the
\* query, or nothing; and no suspended query holds an index that a buildIndex is
\* still filling.
C10_QuerySeesWholeIndex ==
  /\ (last.op \in {"search", "getScores"} /\ last.path = "query" /\ StructuralOverlap(last.ov)) =>
       (last.ret = FromSnapshot(last) \/ last.ret = <<>>)
  /\ \A p \in Procs, b \in Procs :
       (InFlight(procs, p) /\ procs[p].path = "query" /\ InFlight(procs, b) /\ procs[b].path = "build")
         => procs[p].h # procs[b].h

\* a search outlived its index: the index was dropped while the search was suspended,
\* and the search still returned the documents of the index it had started on
C10_Witness ==
  /\ last.op = "search" /\ last.path = "query" /\ StructuralOverlap(last.ov)
  /\ ~last.obs.has
  /\ last.ret # <<>>

\* what a tenant's callers can see of its index: presence, documents, postings, count
NoView == [has |-> FALSE, docs |-> <<>>, postings |-> {}, documentCount |-> 0]
TenantView(t) ==
  IF indexCache[t] = 0 THEN NoView
  ELSE [has |-> TRUE, docs |-> heap[indexCache[t]].docs,
        postings |-> heap[indexCache[t]].postings,
        documentCount |-> heap[indexCache[t]].documentCount]

\* now - lastAccessed of a cached index
IdleTime(t) == now - heap[indexCache[t]].lastAccessed

\* C11: a run of the eviction sweep removes every cached index whose idle time
\* now - lastAccessed exceeds 30 minutes, and leaves every index idle for at most
\* 30 minutes cached with its documents and documentCount as they were.
C11_SweepEvictsExactlyIdle ==
  [][last'.op = "cleanupIdleIndexes" =>
       \A t \in Tenants :
         IF hasIndex(t) /\ IdleTime(t) > 30 * 60 * 1000
         THEN ~hasIndex(t)'
         ELSE TenantView(t)' = TenantView(t)]_vars

\* a sweep has dropped one tenant's index and kept the other's, idle for exactly 30 minutes
C11_Witness ==
  /\ last.op = "cleanupIdleIndexes"
  /\ \E t, u \in Tenants :
       /\ ~hasIndex(t)
       /\ hasIndex(u) /\ IdleTime(u) = 30 * 60 * 1000
       /\ heap[indexCache[u]].documentCount > 0

AccessOps == {"search", "getScores", "hasIndex", "buildIndex", "addDocument", "removeDocument"}

\* C12: when search, getScoresForDocuments, hasIndex, buildIndex, addDocument or
\* removeDocument has just returned for a tenant whose index exists, the lastAccessed
\* of that index is the current time (so the sweep counts its idle time from this call).
C12_AccessRefreshesLastAccessed ==
  (last.op \in AccessOps /\ last.obs.has /\ hasIndex(last.t)) => IdleTime(last.t) = 0

\* C13: search, getScoresForDocuments and removeDocument on a tenant without an index
\* return at once, the queries with an empty result, change nothing in the service,
\* and leave the tenant without an index (hasIndex false, getDocumentCount 0).
C13_MissingIndexIsEmpty ==
  [][(last'.op \in {"search", "getScores", "removeDocument"} /\ last'.path = "noindex") =>
       /\ last'.ret = <<>>
       /\ UNCHANGED <<indexCache, heap, procs, now>>
       /\ indexCache'[last'.t] = 0]_vars

\* a search found no index for its tenant while the other tenant had documents indexed
C13_Witness ==
  /\ last.op = "search" /\ last.path = "noindex"
  /\ ~hasIndex(last.t)
  /\ \E u \in Tenants : u # last.t /\ getDocumentCount(u) > 0

\* the tenants a step works for: the tenant of the index call that starts, resumes or
\* finishes in it, and the tenant of the retriever when the retrieval moves
StepTenants ==
  {procs[p].t : p \in {x \in Procs : procs'[x] # procs[x] /\ procs[x].pc # "idle"}}
    \cup {procs'[p].t : p \in {x \in Procs : procs'[x] # procs[x] /\ procs'[x].pc # "idle"}}
    \cup (IF last' # last /\ last'.op \notin {"none", "cleanupIdleIndexes"}
          THEN {last'.t} ELSE {})
    \cup (IF retr' # retr THEN {retr.userId} ELSE {})

\* what search(t, query, limit) returns on a given cache, with nothing else running
SearchIn(cache, hp, t, query, limit) ==
  IF cache[t] = 0 THEN <<>> ELSE SearchEntry(hp[cache[t]], query, limit)

\* the tenant a stored chunk belongs to
OwnersOf(id) == {r.userId : r \in {x \in store : x.id = id}}

\* C14: a step that works for tenant T (buildIndex, addDocument, removeDocument,
\* clearIndex, hasIndex, a query, a retrieval) leaves hasIndex, getDocumentCount, the
\* documents and the search results of every other tenant U as they were, and a
\* retrieval for U returns only chunks stored under U's tenant id.
C14_TenantIsolation ==
  [][/\ \/ UNCHANGED <<indexCache, heap>>
        \/ \A u \in Tenants \ StepTenants :
             /\ TenantView(u)' = TenantView(u)
             /\ \A q \in ConcQueries, l \in ConcLimits :
                  SearchIn(indexCache', heap', u, q, l) = SearchIn(indexCache, heap, u, q, l)
     /\ retr'.pc = "returned" =>
          \A id \in RowIds(retr'.out) : OwnersOf(id) = {retr'.userId}]_vars

\* a retrieval for one tenant has returned chunks while the table holds a matching
\* chunk of another tenant, and both tenants have documents indexed
C14_Witness ==
  /\ retr.pc = "returned" /\ retr.out # <<>>
  /\ \E r \in store : r.userId # retr.userId /\ MatchCount(retr.keywords, r.content) > 0
  /\ \A t \in Tenants : getDocumentCount(t) > 0
  /\ \E t, u \in Tenants : heap[indexCache[t]].docs # heap[indexCache[u]].docs

\* C21: once initialization has finished with jiebaLoaded false the flag stays false,
\* every tokenize call returns what the n-gram backend gives, and a blank text gives
\* the empty list on either backend.
C21_FallbackIsPermanent ==
  [][/\ (tokenizer.init = "done" /\ ~tokenizer.jiebaLoaded) =>
          /\ ~tokenizer'.jiebaLoaded
          /\ (call'.fn = "tokenize" /\ call'.done) =>
               call'.ret = tokenize(call'.text, call'.filterStopWords,
                                    call'.minWordLength, call'.maxWordLength)
     /\ (call'.fn = "tokenize" /\ call'.done /\ IsBlankText(call'.text)) =>
          call'.ret = <<>>]_vars

\* jieba failed to load, and a tokenize call made after that has returned terms
C21_Witness ==
  /\ tokenizer.init = "done" /\ ~tokenizer.jiebaLoaded
  /\ call.fn = "tokenize" /\ call.done /\ call.initAtCall = "done"
  /\ Len(call.ret) >= 2

ContainsIgnoringCase(text, word) ==
  \E i \in 1..(Len(text) - Len(word) + 1) :
    \A j \in 1..Len(word) : SameLetter(text[i + j - 1], word[j])

\* C15: for every keyword, also one that holds %, _, a quote or the backslash, the
\* condition built for it is well formed and is true of a content exactly when the
\* content contains the keyword literally, letter case ignored.
C15_KeywordMatchesLiterally ==
  (call.fn = "keywordCondition" /\ call.done) =>
    call.ret = IF ContainsIgnoringCase(call.content, call.kw) THEN "true" ELSE "false"

(***************************************************************************)
(* Claims on the vector search.                                            *)
(***************************************************************************)
\* rows are all at or above the floor, in order of decreasing similarity, at most limit
FlooredSortedCapped(rows, minSimilarity, limit) ==
  /\ \A i \in 1..Len(rows) : NumLeq(minSimilarity, rows[i].similarity)
  /\ \A i \in 1..(Len(rows) - 1) : NumLeq(rows[i + 1].similarity, rows[i].similarity)
  /\ Len(rows) <= limit

\* C16: every list a vector search returns (similaritySearch's result, the vector
\* branch's list of a retrieval) holds only chunks whose similarity is at least
\* minSimilarity, in order of decreasing similarity, and at most limit of them.
C16_VectorListFlooredSortedCapped ==
  /\ (call.fn = "similaritySearch" /\ call.done /\ ~call.threw) =>
       FlooredSortedCapped(call.ret, call.minSimilarity, call.k)
  /\ retr.vst = "done" =>
       FlooredSortedCapped(retr.vectorResults, DefaultMinSimilarity, retr.limit)

\* similaritySearch has returned two chunks of different similarity while the tenant
\* has a chunk below the floor and more chunks above it than the limit, and the
\* retriever's vector branch has finished
C16_Witness ==
  /\ call.fn = "similaritySearch" /\ call.done /\ ~call.threw
  /\ Len(call.ret) = 2 /\ call.ret[1].similarity # call.ret[2].similarity
  /\ \E r \in store : r.userId = call.userId /\ NumLess(r.similarity, call.minSimilarity)
  /\ Cardinality(SimilarRows(store, call.userId, call.minSimilarity)) > call.k
  /\ retr.vst = "done"

\* the ids of a list of rows, in order
IdSeq(rows) == [i \in 1..Len(rows) |-> rows[i].id]

\* the lists a working vector search gives for the retriever's tenant: its chunks at
\* or above the default floor by decreasing similarity, cut to the limit
VectorRankings ==
  {IdSeq(Prefix(o, retr.limit)) :
     o \in DistanceOrders(SimilarRows(store, retr.userId, DefaultMinSimilarity))}

\* C17: with all collaborators working, a retrieval whose keyword branch finds
\* nothing returns the tenant's chunks at or above minSimilarity in order of
\* decreasing similarity, cut to limit ({A: 0.9, B: 0.4} gives [A, B]); and one whose
\* vector branch gives nothing returns the keyword rows in their order, cut to limit.
C17_SingleBranchPassesThrough ==
  retr.pc = "returned" =>
    /\ retr.keywordResults = <<>> => IdSeq(retr.out) \in VectorRankings
    /\ retr.vectorResults = <<>> /\ retr.keywordResults # <<>> =>
         IdSeq(retr.out) = IdSeq(Prefix(retr.keywordResults, retr.limit))

C19_TokensNormalised ==
  (call.fn = "tokenize" /\ call.done) =>
    \A i \in 1..Len(call.ret) :
      /\ ToLowerCase(call.ret[i]) = call.ret[i]
      /\ Len(call.ret[i]) >= call.minWordLength /\ Len(call.ret[i]) <= call.maxWordLength
      /\ call.filterStopWords => ~isStopWord(call.ret[i])

\* how many times word stands in text, letter case ignored
Occurrences(text, word) ==
  Cardinality({i \in 1..(Len(text) - Len(word) + 1) :
                 \A j \in 1..Len(word) : SameLetter(text[i + j - 1], word[j])})

\* C20: extractKeywords returns at most maxKeywords terms, by frequency in the text: no
\* returned term comes after a less frequent one, and no term of the text is left out
\* while a less frequent one is returned.
C20_KeywordsByFrequency ==
  (call.fn = "extractKeywords" /\ call.done) =>
    /\ Len(call.ret) <= call.maxKeywords
    /\ \A i, j \in 1..Len(call.ret) :
         i < j => Occurrences(call.text, call.ret[i]) >= Occurrences(call.text, call.ret[j])
    /\ \A k \in 1..Len(call.tokens), i \in 1..Len(call.ret) :
         call.tokens[k] \notin {call.ret[n] : n \in 1..Len(call.ret)} =>
           Occurrences(call.text, call.ret[i]) >= Occurrences(call.text, call.tokens[k])

(***************************************************************************)
(* Claims on the hybrid retriever.                                         *)
(***************************************************************************)
HasFused == retr.pc \in {"rerank", "returned"}

\* weight / (k + r) for the 1-based rank r of id in rows, 0 when id is not in rows
Contribution(rows, id, weight) ==
  IF id \in RowIds(rows) THEN NumDiv(weight, Int2Num(DefaultRrfK + IndexOf(rows, id))) ELSE Zero

\* C2: every fused item's hybridScore is the sum over the two lists of
\* weight / (rrfK + rank) with rrfK = 60, a list that lacks the item contributing 0;
\* an item ranked first in both lists scores strictly more than vectorWeight / 61 and
\* than keywordWeight / 61, the scores of an item ranked first in one list only.
C2_RrfScoreFormula ==
  HasFused =>
    \A i \in 1..Len(retr.merged) :
      LET id == retr.merged[i].id
          h == retr.merged[i].hybridScore
      IN /\ h = NumAdd(Contribution(retr.vectorResults, id, retr.vectorWeight),
                       Contribution(retr.keywordResults, id, retr.keywordWeight))
         /\ (/\ retr.vectorResults # <<>> /\ retr.vectorResults[1].id = id
             /\ retr.keywordResults # <<>> /\ retr.keywordResults[1].id = id)
              => /\ NumLess(NumDiv(retr.vectorWeight, Int2Num(DefaultRrfK + 1)), h)
                 /\ NumLess(NumDiv(retr.keywordWeight, Int2Num(DefaultRrfK + 1)), h)

\* C3: the fused list is in descending order of hybridScore, and two neighbours with
\* the same hybridScore are in ascending order of id.
C3_FusedOrder ==
  HasFused =>
    \A i \in 1..(Len(retr.merged) - 1) :
      \/ NumLess(retr.merged[i + 1].hybridScore, retr.merged[i].hybridScore)
      \/ /\ NumEq(retr.merged[i].hybridScore, retr.merged[i + 1].hybridScore)
         /\ retr.merged[i].id < retr.merged[i + 1].id

BranchesDone == retr.vst = "done" /\ retr.kst = "done"
RetrievalOver == retr.pc \in {"returned", "thrown"}

\* C4: when exactly one of the two branches has failed, that branch has given the
\* empty list, no exception leaves the retrieval, and the retrieval returns the fusion
\* of the other branch's rows: its first `limit` ids.
C4_OneBranchFails ==
  (BranchesDone /\ retr.vfail # retr.kfail) =>
    /\ retr.pc # "thrown"
    /\ retr.vfail => retr.vectorResults = <<>>
    /\ retr.kfail => retr.keywordResults = <<>>
    /\ retr.pc = "returned" =>
         RowIds(retr.out) = RowIds(Prefix(IF retr.vfail THEN retr.keywordResults
                                          ELSE retr.vectorResults, retr.limit))

\* the vector branch failed, the keyword branch found rows, and they were returned
C4_Witness ==
  /\ retr.pc = "returned"
  /\ retr.vfail /\ ~retr.kfail
  /\ retr.keywordResults # <<>>
  /\ RowIds(retr.out) = RowIds(Prefix(retr.keywordResults, retr.limit))

\* C5: a retrieval in which both branches failed ends with an error for its caller.
C5_BothBranchesFail ==
  (RetrievalOver /\ retr.vfail /\ retr.kfail) => retr.pc = "thrown"

\* C6: when rerank is disabled, no index service was given, the tenant has no index
\* or a step of the rerank stage threw, the retrieval returns the fused results as
\* they were: the same items in the same order with the same hybridScore.
C6_RerankSkippedLeavesResults ==
  (retr.pc = "returned" /\ retr.stage \in {"disabled", "noservice", "noindex", "faulted"}) =>
    retr.out = retr.merged

InUnitInterval(x) == NumLeq(Zero, x) /\ NumLeq(x, One)

Unlimited == Cardinality(DocIds)

PairSet(rs) == {<<rs[i].id, rs[i].score>> : i \in 1..Len(rs)}

\* C23: the map getScoresForDocuments returns has as keys exactly the supplied ids that
\* an unlimited search for the same query on the same index returns, each with the
\* score that search gives it; an id that was not supplied is no key.
C23_ScoresAreSearchRestricted ==
  [][(last'.op = "getScores" /\ last' # last) =>
       LET full == SearchIn(indexCache', heap', last'.t, last'.q, Unlimited)
       IN PairSet(last'.ret) = {pr \in PairSet(full) : pr[1] \in last'.ids}]_vars


(***************************************************************************)
(* SpecBuild: one caller on one tenant as in SpecSeq, and buildIndex with  *)
(* BM25 options, supplied in part, in full or not at all.                  *)
(***************************************************************************)
BuildOptions == [k1 : {<<>>, <<Zero>>}, b : {<<>>, <<Rat(1, 2)>>}]

NextBuild ==
  \/ \E p \in Readers, t \in SeqTenants, documents \in BuildInputs, options \in BuildOptions :
       BuildIndexWith(p, t, documents, options)
  \/ NextSeq

SpecBuild == Init /\ [][NextBuild]_vars

\* the document list of the buildIndex that returns in this step
BuiltDocs ==
  LET ps == {p \in Procs : procs[p].pc = "await" /\ procs'[p].pc = "idle"}
  IN IF ps = {} THEN <<>> ELSE procs[CHOOSE p \in ps : TRUE].docs

\* the query shares a token with the content
Mentions(content, query) ==
  Range(TokenizeForIndex(content)) \cap Range(TokenizeForIndex(query)) # {}

\* C24: when buildIndex(T, docs) returns, T's index holds the documents of docs and no
\* other (no document of an earlier index of T is searchable any more),
\* getDocumentCount(T) is the length of docs, lastAccessed is the time of the build,
\* and the stored BM25 parameters are the supplied k1 and b, 1.2 and 0.75 where one
\* was not supplied.
C24_BuildReplacesIndex ==
  [][last'.op = "buildIndex" =>
       LET t == last'.t
           docs == BuiltDocs
           ids == {docs[i].id : i \in 1..Len(docs)}
           e == heap'[indexCache'[t]]
       IN /\ indexCache'[t] # 0
          /\ DOMAIN e.docs = ids
          /\ \A q \in Queries :
               LET found == ResultIds(SearchIn(indexCache', heap', t, q, Unlimited))
               IN /\ found \subseteq ids
                  /\ \A i \in 1..Len(docs) : Mentions(docs[i].content, q) => docs[i].id \in found
          /\ e.documentCount = Len(docs)
          /\ e.lastAccessed = now'
          /\ e.bm25Config.k1 = (IF last'.cfg.k1 = <<>> THEN DEFAULT_BM25_K1 ELSE last'.cfg.k1[1])
          /\ e.bm25Config.b = (IF last'.cfg.b = <<>> THEN DEFAULT_BM25_B ELSE last'.cfg.b[1])]_vars

\* a build with k1 = 0 and no b returned after the clock had moved, and a query finds
\* its document
C24_Witness ==
  /\ last.op = "buildIndex" /\ last.t = 1
  /\ last.cfg.k1 = <<Zero>> /\ last.cfg.b = <<>>
  /\ now > 0
  /\ last.obs.ids = {1}
  /\ heap[indexCache[1]].bm25Config = [k1 |-> Zero, b |-> DEFAULT_BM25_B]
  /\ \E q \in Queries : SearchNow(1, q, Unlimited) # <<>>


(***************************************************************************)
(* Claims on the shape of the fused list.                                  *)
(***************************************************************************)
\* C25: the fused list holds every id at most once, also an id that is in both the
\* vector and the keyword list, it has at most limit entries, and the hybridScore of
\* every entry is a number (not NaN).
C25_FusedListWellFormed ==
  HasFused =>
    /\ \A i, j \in 1..Len(retr.merged) : retr.merged[i].id = retr.merged[j].id => i = j
    /\ Len(retr.merged) <= retr.limit
    /\ \A i \in 1..Len(retr.merged) : ~retr.merged[i].hybridScore.nan

\* the two conjuncts of C25 that do not depend on the value of the score
FusedUniqueAndCapped ==
  HasFused =>
    /\ \A i, j \in 1..Len(retr.merged) : retr.merged[i].id = retr.merged[j].id => i = j
    /\ Len(retr.merged) <= retr.limit


(***************************************************************************)
(* Claims on the two branches of one retrieval.                            *)
(***************************************************************************)
\* what a branch has of its own
VectorPart(r) == <<r.vst, r.vectorResults, r.vfail>>
KeywordPart(r) == <<r.kst, r.keywords, r.keywordResults, r.kfail>>

\* C26: a retrieval starts both branches in the step that starts it, before either
\* result is there; while the branches run, a step of one branch, its failure included,
\* leaves the other branch as it was (it neither cancels nor settles it); the fusion
\* is computed only when both branches have settled.
C26_BranchesIndependent ==
  [][/\ (retr.pc = "idle" /\ retr'.pc # "idle") =>
          (retr'.pc = "branches" /\ retr'.vst = "embed" /\ retr'.kst = "extract")
     /\ (retr.pc = "branches" /\ retr'.pc = "branches") =>
          /\ VectorPart(retr') # VectorPart(retr) => KeywordPart(retr') = KeywordPart(retr)
          /\ KeywordPart(retr') # KeywordPart(retr) => VectorPart(retr') = VectorPart(retr)
     /\ (retr.pc = "branches" /\ retr'.pc # "branches") =>
          (retr.vst = "done" /\ retr.kst = "done")]_vars

\* the keyword branch has returned rows while the vector branch still waits for its
\* embedding
C26_Witness ==
  /\ retr.pc = "branches"
  /\ retr.vst = "embed"
  /\ retr.kst = "done" /\ retr.keywordResults # <<>>


(***************************************************************************)
(* Claims on the frame of the rerank stage.                                *)
(***************************************************************************)
Reranked == retr.pc = "returned" /\ retr.stage \in {"applied", "faulted"}

RowOfId(rows, id) == rows[CHOOSE i \in 1..Len(rows) : rows[i].id = id]

\* C27: the rerank stage returns the results of the fused list it was given, each
\* once and changed in its hybridScore only; getScoresForDocuments was called with
\* exactly the ids of that list; and the returned list is in descending order of the
\* final score.
C27_RerankKeepsCandidates ==
  Reranked =>
    /\ Len(retr.out) = Len(retr.merged)
    /\ RowIds(retr.out) = RowIds(retr.merged)
    /\ retr.resultIds = RowIds(retr.merged)
    /\ \A i \in 1..Len(retr.out) :
         /\ ~retr.out[i].hybridScore.nan
         /\ [retr.out[i] EXCEPT !.hybridScore = Zero]
              = [RowOfId(retr.merged, retr.out[i].id) EXCEPT !.hybridScore = Zero]
    /\ \A i \in 1..(Len(retr.out) - 1) :
         NumLeq(retr.out[i + 1].hybridScore, retr.out[i].hybridScore)

\* the rerank moved a result without a score in the index behind one with a score
C27_Witness ==
  /\ Reranked /\ retr.stage = "applied"
  /\ Len(retr.out) >= 2
  /\ IdSeq(retr.out) # IdSeq(retr.merged)
  /\ NumLess(retr.out[Len(retr.out)].hybridScore, retr.out[1].hybridScore)
  /\ retr.out[Len(retr.out)].hybridScore = Zero


(***************************************************************************)
(* Claims on the document count.                                           *)
(***************************************************************************)
StoredIds(t) == IF indexCache[t] = 0 THEN {} ELSE DOMAIN heap[indexCache[t]].docs

\* C28: whenever no call is in flight, getDocumentCount(t) is the number of distinct
\* ids stored in t's index and is not negative, whatever buildIndex, addDocument,
\* removeDocument and clearIndex calls came before.
C28_CountIsStoredIds ==
  (\A p \in Procs : procs[p].pc = "idle") =>
    \A t \in Tenants :
      /\ getDocumentCount(t) = Cardinality(StoredIds(t))
      /\ getDocumentCount(t) >= 0


(***************************************************************************)
(* KnowledgeService.uploadFileWithLoader and deleteFile, with              *)
(* VectorStoreService.addDocuments.  A row of the table is a chunk:        *)
(* [id, userId, fileName, content].  `call` holds the one call in flight.  *)
(***************************************************************************)
MaxRowId == 4            \* the sequence behind "Knowledge".id stops here

CallIdle == IF call.fn = "none" THEN TRUE ELSE call.done

FileRows(rows, userId, fileName) == {r \in rows : r.userId = userId /\ r.fileName = fileName}

UploadCall(userId, fileName, chunks) ==
  [fn |-> "uploadFileWithLoader", userId |-> userId, fileName |-> fileName,
   chunks |-> chunks, embeddings |-> <<>>, pc |-> "embed", done |-> FALSE,
   threw |-> FALSE, ids |-> {}]

Thrown(c) == [c EXCEPT !.pc = "done", !.done = TRUE, !.threw = TRUE]

\* uploadFileWithLoader up to addDocuments' await on embedDocuments: a file without
\* content is refused; otherwise the rows of an earlier file of the same name go
UploadFileWithLoader(userId, fileName, chunks) ==
  /\ CallIdle
  /\ knowledgeSeq + Len(chunks) <= MaxRowId
  /\ IF chunks = <<>>
     THEN /\ call' = Thrown(UploadCall(userId, fileName, chunks))
          /\ UNCHANGED store
     ELSE /\ call' = UploadCall(userId, fileName, chunks)
          /\ store' = store \ FileRows(store, userId, fileName)
  /\ pool' = Restart(pool, {"addDocuments"})
  /\ UNCHANGED <<indexCache, heap, procs, now, last, retr, tokenizer, knowledgeSeq>>

\* await this.embeddings.embedDocuments(...): one embedding for each chunk, kept here as
\* the similarity it has to the query of the model
AddDocumentsEmbed(ok, embeddings) ==
  /\ call.fn = "uploadFileWithLoader" /\ call.pc = "embed"
  /\ Len(embeddings) = Len(call.chunks)
  /\ call' = IF ok THEN [call EXCEPT !.pc = "connect", !.embeddings = embeddings]
             ELSE Thrown(call)
  /\ UNCHANGED <<indexCache, heap, procs, now, last, retr, store, tokenizer, pool, knowledgeSeq>>

\* const client = await this.pool.connect()
AddDocumentsConnect(ok) ==
  /\ call.fn = "uploadFileWithLoader" /\ call.pc = "connect"
  /\ call' = IF ok THEN [call EXCEPT !.pc = "insert"] ELSE Thrown(call)
  /\ pool' = IF ok THEN Acquire(pool, "addDocuments") ELSE pool
  /\ UNCHANGED <<indexCache, heap, procs, now, last, retr, store, tokenizer, knowledgeSeq>>

\* BEGIN, one INSERT per chunk, COMMIT; finally release; the upload returns
AddDocumentsCommit ==
  /\ call.fn = "uploadFileWithLoader" /\ call.pc = "insert"
  /\ LET rows == {[id |-> knowledgeSeq + i, userId |-> call.userId,
                   fileName |-> call.fileName, content |-> call.chunks[i],
                   similarity |-> call.embeddings[i]] :
                    i \in 1..Len(call.chunks)}
     IN /\ store' = store \cup rows
        /\ call' = [call EXCEPT !.pc = "done", !.done = TRUE, !.ids = {r.id : r \in rows}]
  /\ knowledgeSeq' = knowledgeSeq + Len(call.chunks)
  /\ pool' = Release(pool, "addDocuments")
  /\ UNCHANGED <<indexCache, heap, procs, now, last, retr, tokenizer>>

\* a statement of the transaction throws after `used` ids were drawn: ROLLBACK,
\* finally release, the error goes to the caller
AddDocumentsRollback(used) ==
  /\ call.fn = "uploadFileWithLoader" /\ call.pc = "insert"
  /\ used <= Len(call.chunks)
  /\ call' = Thrown(call)
  /\ knowledgeSeq' = knowledgeSeq + used
  /\ pool' = Release(pool, "addDocuments")
  /\ UNCHANGED <<indexCache, heap, procs, now, last, retr, store, tokenizer>>

\* deleteFile(userId, id, fileName): the record must exist; all rows of the file go
DeleteFile(userId, id, fileName) ==
  /\ CallIdle
  /\ LET record == {r \in FileRows(store, userId, fileName) : r.id = id}
         c == [fn |-> "deleteFile", userId |-> userId, fileName |-> fileName,
               chunks |-> <<>>, embeddings |-> <<>>, pc |-> "done", done |-> TRUE,
               threw |-> FALSE, ids |-> {}]
     IN IF record = {}
        THEN /\ call' = [c EXCEPT !.threw = TRUE]
             /\ UNCHANGED store
        ELSE /\ call' = [c EXCEPT !.ids = {r.id : r \in FileRows(store, userId, fileName)}]
             /\ store' = store \ FileRows(store, userId, fileName)
  /\ UNCHANGED <<indexCache, heap, procs, now, last, retr, tokenizer, pool, knowledgeSeq>>

(***************************************************************************)
(* SpecDoc: uploads and deletions of files of tenant 1, and the index      *)
(* calls of one caller on tenant 1's index.                                *)
(***************************************************************************)
FileNames == {"a.txt", "b.txt"}
ChunkLists == {<<>>, <<TextCat>>, <<TextCat, TextTheTea>>}

DocEmbeddings == {<<One>>, <<One, One>>}

InitDoc ==
  /\ InitIdx
  /\ retr = IdleRetr
  /\ store = {}
  /\ call = NoCall
  /\ SvcInit

NextDoc ==
  \/ \E fileName \in FileNames, chunks \in ChunkLists : UploadFileWithLoader(1, fileName, chunks)
  \/ \E ok \in BOOLEAN, embeddings \in DocEmbeddings : AddDocumentsEmbed(ok, embeddings)
  \/ \E ok \in BOOLEAN : AddDocumentsConnect(ok)
  \/ AddDocumentsCommit
  \/ \E used \in 0..1 : AddDocumentsRollback(used)
  \/ \E id \in 1..MaxRowId, fileName \in FileNames : DeleteFile(1, id, fileName)
  \/ \E documents \in ConcBuilds : BuildIndexCall("p1", 1, documents)
  \/ BuildIndexResume("p1")
  \/ procs["p1"].pc = "idle" /\ ClearIndex(1)

SpecDoc == InitDoc /\ [][NextDoc]_vars

StoredIdsIn(cache, hp, t) == IF cache[t] = 0 THEN {} ELSE DOMAIN hp[cache[t]].docs

\* the call of that name that returns in this step without an exception
Returns(fn) == call' # call /\ call'.fn = fn /\ call'.done /\ ~call'.threw

\* C29: when an upload returns, the chunks it stored are in the user's BM25 index;
\* when a deletion returns, the chunks it deleted are not in the index.
C29_IndexFollowsLifecycle ==
  [][/\ Returns("uploadFileWithLoader") =>
          call'.ids \subseteq StoredIdsIn(indexCache', heap', call'.userId)
     /\ Returns("deleteFile") =>
          call'.ids \cap StoredIdsIn(indexCache', heap', call'.userId) = {}]_vars


(***************************************************************************)
(* SpecPool: one retrieval, similaritySearch calls and uploads, all on the *)
(* one pool; every await that can reject does so on some behaviour.        *)
(***************************************************************************)
PoolEmbeddings == {<<Rat(2, 10)>>, <<Rat(9, 10)>>, <<Rat(9, 10), Rat(4, 10)>>}

SimilaritySearchCall(userId, k, minSimilarity) ==
  /\ CallIdle
  /\ call' = SimilaritySearchArgs(userId, k, minSimilarity)
  /\ pool' = Restart(pool, {"similaritySearch"})
  /\ UNCHANGED <<indexCache, heap, procs, now, last, retr, store, tokenizer, knowledgeSeq>>

InitPool ==
  /\ InitIdx
  /\ retr = [IdleRetr EXCEPT !.hasTokenizer = TRUE]
  /\ store = {}
  /\ call = NoCall
  /\ SvcInit

NextPool ==
  \/ \E chunks \in ChunkLists : UploadFileWithLoader(1, "a.txt", chunks)
  \/ \E ok \in BOOLEAN, embeddings \in PoolEmbeddings : AddDocumentsEmbed(ok, embeddings)
  \/ \E ok \in BOOLEAN : AddDocumentsConnect(ok)
  \/ AddDocumentsCommit
  \/ \E used \in 0..1 : AddDocumentsRollback(used)
  \/ SimilaritySearchCall(1, DefaultK, DefaultMinSimilarity)
  \/ SimilaritySearchReturns
  \/ \E failedAt \in SimilarityAwaits : SimilaritySearchThrows(failedAt)
  \/ \E query \in RetrQueries : StartRetrieval("getSearchResults", query)
  \/ \E ok \in BOOLEAN : VectorEmbed(ok)
  \/ \E ok \in BOOLEAN : VectorConnect(ok)
  \/ VectorQuery
  \/ KeywordExtract
  \/ \E ok \in BOOLEAN : KeywordConnect(ok)
  \/ KeywordQuery
  \/ KeywordQueryThrows
  \/ Fuse

SpecPool == InitPool /\ [][NextPool]_vars

\* the clients the operation holds
Held(pl, h) == pl.acquired[h] - pl.released[h]

\* the operation of the call in flight, the position it holds its client at
CallHolds(c, h) ==
  IF c.fn = "uploadFileWithLoader" THEN h = "addDocuments" /\ c.pc = "insert" ELSE FALSE

\* a run of the operation took at most one client, holds it exactly while its
\* statement runs, and has given it back once when it has ended
PoolSafe(pl, r, c) ==
  /\ \A h \in Holders : pl.acquired[h] <= 1 /\ Held(pl, h) \in {0, 1}
  /\ Held(pl, "vectorSearch") = (IF r.vst = "query" THEN 1 ELSE 0)
  /\ Held(pl, "keywordSearch") = (IF r.kst = "query" THEN 1 ELSE 0)
  /\ Held(pl, "addDocuments") = (IF CallHolds(c, "addDocuments") THEN 1 ELSE 0)
  /\ Held(pl, "similaritySearch") = 0

\* C30: every client that vectorSearch, keywordSearch, similaritySearch or addDocuments
\* takes from the pool is released once, whether the statement succeeds or throws
\* (none is out after the operation, none is released twice); and no client is taken
\* when the embedding call fails or when no keyword is extracted.
C30_ClientsReleasedOnce ==
  [][/\ PoolSafe(pool', retr', call')
     /\ (retr.vst = "embed" /\ retr'.vst = "done") => pool'.acquired["vectorSearch"] = 0
     /\ (retr'.kst = "done" /\ retr'.keywords = <<>>) => pool'.acquired["keywordSearch"] = 0
     /\ (call.fn = "uploadFileWithLoader" /\ call.pc = "embed" /\ call'.threw) =>
          pool'.acquired["addDocuments"] = 0
     /\ (call'.fn = "similaritySearch" /\ call'.done /\ call'.failedAt = "embedQuery") =>
          pool'.acquired["similaritySearch"] = 0]_vars

\* the retrieval has returned after both branches took a client and the keyword
\* statement threw, a similaritySearch has failed in its statement, and an upload
\* before it was rolled back or committed
C30_Witness ==
  /\ retr.pc = "returned" /\ retr.kfail
  /\ pool.acquired["vectorSearch"] = 1 /\ pool.released["vectorSearch"] = 1
  /\ pool.acquired["keywordSearch"] = 1 /\ pool.released["keywordSearch"] = 1
  /\ pool.acquired["addDocuments"] = 1 /\ pool.released["addDocuments"] = 1
  /\ call.fn = "similaritySearch" /\ call.threw /\ call.failedAt = "query"
  /\ pool.acquired["similaritySearch"] = 1 /\ pool.released["similaritySearch"] = 1

====
